---- MODULE Spec2Model ----
(***************************************************************************)
(* Event-sourced mutation layer of the AEI framework: the graph aggregate  *)
(* (Network), the adaptive memory aggregate (AdaptiveMemory), the          *)
(* append-only event log and the command handlers that append an event to  *)
(* the log and then apply it to their in-memory aggregate.                 *)
(***************************************************************************)
EXTENDS Integers, Sequences, FiniteSets, TLC

(***************************************************************************)
(* Bounds of the model.                                                    *)
(***************************************************************************)
\* Uuids are opaque: the pool of identifiers the model draws them from.
MaxId == 4
\* Longest event log explored.
MaxLog == 4
\* Synapse weights are drawn from 0..MaxWeight.
MaxWeight == 1
\* Memory scores are counted in steps of 1/MaxScore: MaxScore stands for 1.0.
MaxScore == 1
\* Largest max_size a memory handler is constructed with.
MaxSize == 1
\* The random draws of an activation are among the first MaxDraw kinds.
MaxDraw == 2
\* Longest event sequence the two hydrations are compared on.
MaxReplay == 3
\* Most distinct neurons / memory entries the events of such a sequence name.
MaxReplayId == 2
\* Longest event sequence an edge-creation event is inserted into.
MaxInsertLog == 2
\* Most lines of the log file the store is explored on.
MaxFile == 3
\* Longest log the explicit CommandHandler is explored on.
MaxCmdLog == 2
\* Most neurons of a log written by explicit commands before the random
\* handlers are explored on it.
MaxSeed == 2
\* The ids one recalculation command names.
MaxTargets == 2
\* Most entries of a memory read model that is queried.
MaxEntries == 3

Ids == 1..MaxId

\* The neuron / entry ids that event sequences given as inputs name.
ReplayIds == 1..MaxReplayId

\* The one synapse id such event sequences name.
ReplaySynapseId == MaxReplayId + 1
Weights == 0..MaxWeight

\* f64 values where non-finite ones matter: the finite ones, and NaN.
F64(v) == [class |-> "finite", value |-> v]

NaN == [class |-> "nan", value |-> 0]

\* The four activation kinds, in the order the handlers list them.
ActivationList == <<"Identity", "Sigmoid", "ReLU", "Tanh">>

Activations == {ActivationList[i] : i \in 1..Len(ActivationList)}

\* The kinds a bounded random draw (`choose`) or a caller picks among.
DrawnActivations ==
    {ActivationList[i] : i \in {j \in 1..Len(ActivationList) : j <= MaxDraw}}

VARIABLES
    family,     \* the handlers run on this log: "random", "command" or "memory";
                \* "seeded": the random handlers on a log of explicit neurons
                \* "mixed": explicit node commands and score recalculation on one log
    log,        \* the durable event log of the store (oldest first)
    network,    \* the Network aggregate of the graph handler in use
    pc,         \* position of the caller and of handle(): "idle", "appended", "attach",
                \* "prune", "returned"
    call,       \* locals of the running handle() call (arg: a value of its command)
    ret,        \* what the last handle() call returned
    log0,       \* the log as it was when the running/last handle() was entered
    memory,     \* the AdaptiveMemory aggregate of the memory handler in use
    file,       \* family "store": the log file, whether it exists and its lines
    replicas    \* family "replay": the aggregates two hydrations of the log built

vars == <<family, log, network, pc, call, ret, log0, memory, file, replicas>>

(***************************************************************************)
(* Finite maps (HashMap<Uuid, _>).                                         *)
(***************************************************************************)
EmptyMap == [x \in {} |-> 0]

MapInsert(m, k, v) == [x \in (DOMAIN m) \cup {k} |-> IF x = k THEN v ELSE m[x]]

MapRemove(m, k) == [x \in (DOMAIN m) \ {k} |-> m[x]]

(***************************************************************************)
(* Domain entities.                                                        *)
(***************************************************************************)
\* Neuron::with_id: a neuron with the given activation and the default score.
NeuronWithId(activation) == [activation |-> activation, curiosity_score |-> 0]

\* Synapse::with_id: a synapse with the default score.
SynapseWithId(from, to, weight) ==
    [from |-> from, to |-> to, weight |-> weight, curiosity_score |-> 0]

\* Network::default(): no neuron, no synapse.
EmptyNetwork == [neurons |-> EmptyMap, synapses |-> EmptyMap]

(***************************************************************************)
(* Network::apply and its helpers (src/domain/network.rs).                 *)
(***************************************************************************)
apply_neuron_added(net, e) ==
    [net EXCEPT !.neurons = MapInsert(@, e.neuron_id, NeuronWithId(e.activation))]

\* synapses.retain(|_, s| s.from != id && s.to != id)
RetainNotTouching(synapses, id) ==
    [x \in {y \in DOMAIN synapses : synapses[y].from # id /\ synapses[y].to # id} |-> synapses[x]]

\* A removal that drops the neuron and its outgoing synapses only.
apply_neuron_removed_outgoing(net, e) ==
    [net EXCEPT !.neurons = MapRemove(@, e.neuron_id),
                !.synapses = [x \in {y \in DOMAIN @ : @[y].from # e.neuron_id} |-> @[x]]]

\* A removal that drops the neuron and leaves its synapses.
apply_neuron_removed_alone(net, e) ==
    [net EXCEPT !.neurons = MapRemove(@, e.neuron_id)]

apply_neuron_removed(net, e) ==
    [net EXCEPT !.neurons = MapRemove(@, e.neuron_id),
                !.synapses = RetainNotTouching(@, e.neuron_id)]

\* An explicit creation that does not look at the ends.
apply_synapse_created_unchecked(net, e) ==
    [net EXCEPT !.synapses = MapInsert(@, e.id, SynapseWithId(e.from, e.to, e.weight))]

\* An explicit creation that refuses a self-loop, as the random one does.
apply_synapse_created_no_loop(net, e) ==
    IF e.from \in DOMAIN net.neurons /\ e.to \in DOMAIN net.neurons /\ e.from # e.to
    THEN [net EXCEPT !.synapses = MapInsert(@, e.id, SynapseWithId(e.from, e.to, e.weight))]
    ELSE net

apply_synapse_created(net, e) ==
    IF e.from \in DOMAIN net.neurons /\ e.to \in DOMAIN net.neurons
    THEN [net EXCEPT !.synapses = MapInsert(@, e.id, SynapseWithId(e.from, e.to, e.weight))]
    ELSE net

\* A duplicate test that compares both ends of a synapse with `from`.
ConnectedToItself(net, from, to) ==
    \E s \in DOMAIN net.synapses : net.synapses[s].from = from /\ net.synapses[s].to = from

\* synapses.values().any(|s| s.from == from && s.to == to)
Connected(net, from, to) ==
    \E s \in DOMAIN net.synapses : net.synapses[s].from = from /\ net.synapses[s].to = to

apply_random_synapse_added(net, e) ==
    IF /\ e.from \in DOMAIN net.neurons
       /\ e.to \in DOMAIN net.neurons
       /\ e.from # e.to
       /\ ~Connected(net, e.from, e.to)
    THEN [net EXCEPT !.synapses =
              MapInsert(@, e.synapse_id, SynapseWithId(e.from, e.to, e.weight))]
    ELSE net

\* A removal that leaves the synapse in place.
apply_synapse_removed_kept(net, sid) == net

apply_synapse_removed(net, sid) ==
    [net EXCEPT !.synapses = MapRemove(@, sid)]

\* A weight mutation that creates the synapse it does not find.
apply_synapse_weight_mutated_upsert(net, e) ==
    [net EXCEPT !.synapses =
        MapInsert(@, e.synapse_id,
                  IF e.synapse_id \in DOMAIN @
                  THEN [@[e.synapse_id] EXCEPT !.weight = e.new_weight]
                  ELSE SynapseWithId(e.synapse_id, e.synapse_id, e.new_weight))]

apply_synapse_weight_mutated(net, e) ==
    IF e.synapse_id \in DOMAIN net.synapses
    THEN [net EXCEPT !.synapses[e.synapse_id].weight = e.new_weight]
    ELSE net

\* The arm of Network::apply for Event::SynapseWeightSet: the synapse, when the
\* network holds it, takes the new weight.
apply_synapse_weight_set(net, e) ==
    IF e.synapse_id \in DOMAIN net.synapses
    THEN [net EXCEPT !.synapses[e.synapse_id].weight = e.new_weight]
    ELSE net

\* An activation mutation that puts a new neuron in the place of the old one.
apply_neuron_activation_mutated_fresh(net, e) ==
    IF e.neuron_id \in DOMAIN net.neurons
    THEN [net EXCEPT !.neurons[e.neuron_id] = NeuronWithId(e.new_activation)]
    ELSE net

apply_neuron_activation_mutated(net, e) ==
    IF e.neuron_id \in DOMAIN net.neurons
    THEN [net EXCEPT !.neurons[e.neuron_id].activation = e.new_activation]
    ELSE net

\* An apply arm that stores the score of synapses only.
apply_curiosity_score_updated_synapses(net, e) ==
    IF e.target_id \in DOMAIN net.synapses
    THEN [net EXCEPT !.synapses[e.target_id].curiosity_score = e.new_score]
    ELSE net

apply_curiosity_score_updated(net, e) ==
    IF e.target_id \in DOMAIN net.neurons
    THEN [net EXCEPT !.neurons[e.target_id].curiosity_score = e.new_score]
    ELSE IF e.target_id \in DOMAIN net.synapses
         THEN [net EXCEPT !.synapses[e.target_id].curiosity_score = e.new_score]
         ELSE net

\* Network::apply.
NetworkApply(net, e) ==
    CASE e.type = "RandomNeuronAdded" -> apply_neuron_added(net, e)
      [] e.type = "RandomNeuronRemoved" -> apply_neuron_removed(net, e)
      [] e.type = "NeuronAdded" -> apply_neuron_added(net, e)
      [] e.type = "NeuronRemoved" -> apply_neuron_removed(net, e)
      [] e.type = "SynapseCreated" -> apply_synapse_created(net, e)
      [] e.type = "SynapseRemoved" -> apply_synapse_removed(net, e.id)
      [] e.type = "RandomSynapseAdded" -> apply_random_synapse_added(net, e)
      [] e.type = "RandomSynapseRemoved" -> apply_synapse_removed(net, e.synapse_id)
      [] e.type = "SynapseWeightMutated" -> apply_synapse_weight_mutated(net, e)
      [] e.type = "SynapseWeightSet" -> apply_synapse_weight_set(net, e)
      [] e.type = "NeuronActivationMutated" -> apply_neuron_activation_mutated(net, e)
      [] e.type = "CuriosityScoreUpdated" -> apply_curiosity_score_updated(net, e)
      [] OTHER -> net

\* Network::hydrate: fold apply over the events, from the empty network.
RECURSIVE NetworkHydrateFrom(_, _, _)
NetworkHydrateFrom(net, events, i) ==
    IF i > Len(events) THEN net
    ELSE NetworkHydrateFrom(NetworkApply(net, events[i]), events, i + 1)

NetworkHydrate(events) == NetworkHydrateFrom(EmptyNetwork, events, 1)

(***************************************************************************)
(* Identifiers. Uuid::new_v4() yields an identifier that occurs nowhere in *)
(* the history; identifiers being opaque, the model takes the least one.   *)
(***************************************************************************)
EventIds(e) ==
    CASE e.type \in {"RandomNeuronAdded", "NeuronAdded", "RandomNeuronRemoved",
                     "NeuronRemoved", "NeuronActivationMutated"} -> {e.neuron_id}
      [] e.type = "SynapseCreated" -> {e.id, e.from, e.to}
      [] e.type = "SynapseRemoved" -> {e.id}
      [] e.type = "RandomSynapseAdded" -> {e.synapse_id, e.from, e.to}
      [] e.type \in {"RandomSynapseRemoved", "SynapseWeightMutated",
                     "SynapseWeightSet"} -> {e.synapse_id}
      [] e.type = "CuriosityScoreUpdated" -> {e.target_id}
      [] e.type = "MemoryEntryAdded" -> {e.entry.id}
      [] e.type \in {"MemoryEntryRemoved", "MemoryScoreUpdated"} -> {e.entry_id}
      [] e.type = "MemoryPruned" ->
            {e.removed_entries[i] : i \in 1..Len(e.removed_entries)}
      [] OTHER -> {}

UsedIds(events) == UNION {EventIds(events[i]) : i \in 1..Len(events)}

\* The explicit NeuronAdded events of a seeded log: they come on top of the
\* bounds on the explored events and identifiers.
SeedCount(events) ==
    IF family = "seeded"
    THEN Cardinality({i \in 1..Len(events) : events[i].type = "NeuronAdded"})
    ELSE 0

FreeIds(events) == (1..(MaxId + SeedCount(events))) \ UsedIds(events)

new_v4(events) == CHOOSE i \in FreeIds(events) : \A j \in FreeIds(events) : i <= j

(***************************************************************************)
(* The running call and its result.                                        *)
(***************************************************************************)
NoEvent == [type |-> "none"]

NoCall == [op |-> "none", event |-> NoEvent, id |-> 0, todo |-> {}, arg |-> 0]

\* The result of handle() of handler `op`: Ok(value) or Err(status).
Returned(op, status, value) == [op |-> op, status |-> status, value |-> value]

NotReturned == Returned("none", "none", 0)

(***************************************************************************)
(* EventStore::append: the record is written at the end of the log, or the *)
(* write fails and the log is as before.                                   *)
(***************************************************************************)
\* A store whose append reports success without keeping the record.
StoreAppendForgets(events, e, ok) == events

\* A store that writes the new record over the last one.
StoreAppendOverLast(events, e, ok) ==
    IF ~ok THEN events
    ELSE IF Len(events) = 0 THEN <<e>>
    ELSE [events EXCEPT ![Len(events)] = e]

StoreAppend(events, e, ok) == IF ok THEN Append(events, e) ELSE events

\* `store.append(&event).map_err(..)?` at the head of a persist: on success
\* the call goes on to apply the event, on failure it returns StorageError.
TryAppendWith(op, e, id, todo, arg) ==
    \E ok \in BOOLEAN :
        /\ log' = StoreAppend(log, e, ok)
        /\ IF ok
           THEN /\ pc' = "appended"
                /\ call' = [op |-> op, event |-> e, id |-> id, todo |-> todo, arg |-> arg]
                /\ ret' = NotReturned
           ELSE /\ pc' = "returned"
                /\ call' = NoCall
                /\ ret' = Returned(op, "StorageError", 0)

\* The same for a handler whose command carries no value the model keeps.
TryAppend(op, e, id, todo) == TryAppendWith(op, e, id, todo, 0)

\* An early return of handle(): nothing is appended.
Fail(op, status) ==
    /\ ret' = Returned(op, status, 0)
    /\ pc' = "returned"
    /\ call' = NoCall
    /\ UNCHANGED log

\* An early return of a handle() whose command carried `arg`.
FailWith(op, status, arg) ==
    /\ ret' = Returned(op, status, 0)
    /\ pc' = "returned"
    /\ call' = [NoCall EXCEPT !.arg = arg]
    /\ UNCHANGED log

\* handle() of a handler of the family is entered: no call is running.
Enter(fam) ==
    /\ family = fam \/ (fam = "random" /\ family \in {"seeded", "mixed"})
    /\ pc = "idle"
    /\ log0' = log
    /\ UNCHANGED <<family, file, replicas>>

\* Room in the bounded log and identifier pool for more events and new ids.
LogLimit == MaxLog + SeedCount(log)

Room(events, ids) == Len(log) + events <= LogLimit /\ Cardinality(FreeIds(log)) >= ids

(***************************************************************************)
(* Handler construction (every graph handler's `new`): load the log and    *)
(* hydrate the aggregate. The handlers of one log are used one at a time;  *)
(* `network` is the aggregate of the one in use, and replacing it by a     *)
(* handler of another kind goes through this step. Taken in the middle of  *)
(* a call it is the restart after a crash.                                 *)
(***************************************************************************)
NewGraphHandler ==
    /\ family \in {"random", "command", "seeded", "mixed"}
    /\ network' = NetworkHydrate(log)
    /\ pc' = "idle"
    /\ call' = NoCall
    /\ ret' = NotReturned
    /\ log0' = log
    /\ UNCHANGED <<family, file, replicas, log, memory>>

(***************************************************************************)
(* The step after a successful append: `self.network.apply(&event)`, then  *)
(* the rest of handle(). Every graph handler but AddRandomNeuronHandler    *)
(* returns here; AddRandomNeuronHandler goes on attaching synapses.        *)
(***************************************************************************)
\* A count drawn from 0..=others.len(): possibly no target at all.
AttachTargetsOrNone(net, neuron_id) ==
    LET others == (DOMAIN net.neurons) \ {neuron_id}
    IN  {T \in SUBSET others : Cardinality(T) <= LogLimit - Len(log)
                              /\ Cardinality(T) <= Cardinality(FreeIds(log))}

\* AddRandomNeuronHandler::handle after the neuron event is applied: the other
\* neurons, of which `count` (shuffled) targets are taken, 1 <= count <= len.
AttachTargets(net, neuron_id) ==
    LET others == (DOMAIN net.neurons) \ {neuron_id}
    IN  {T \in SUBSET others : T # {} /\ Cardinality(T) <= LogLimit - Len(log)
                                      /\ Cardinality(T) <= Cardinality(FreeIds(log))}

\* A handler that appends and returns without applying to its aggregate.
HandlerAppliedNothing(net, e) == net

\* `self.network.apply(&event)` in handle(), after the append succeeded.
HandlerApplied(net, e) == NetworkApply(net, e)

GraphApplyStep ==
    /\ family \in {"random", "command", "seeded", "mixed"}
    /\ pc = "appended"
    /\ network' = HandlerApplied(network, call.event)
    /\ IF call.event.type = "RandomNeuronAdded"
          /\ (DOMAIN network'.neurons) \ {call.id} # {}
       THEN \E T \in AttachTargets(network', call.id) :
               IF T # {}
               THEN /\ pc' = "attach"
                    /\ call' = [call EXCEPT !.todo = T]
                    /\ UNCHANGED ret
               ELSE /\ pc' = "returned"
                    /\ call' = NoCall
                    /\ ret' = Returned(call.op, "Ok", call.id)
       ELSE IF call.todo # {}
       THEN /\ pc' = "attach"
            /\ UNCHANGED <<call, ret>>
       ELSE /\ pc' = "returned"
            /\ call' = NoCall
            /\ ret' = Returned(call.op, "Ok", call.id)
    /\ UNCHANGED <<family, file, replicas, log, log0, memory>>

(***************************************************************************)
(* AddRandomNeuronHandler::handle (src/application/add_random_neuron.rs).  *)
(***************************************************************************)
AddRandomNeuron ==
    /\ Enter("random")
    /\ (IF DOMAIN network.neurons = {} THEN Room(1, 1) ELSE Room(2, 2))
    /\ \E activation \in DrawnActivations :
          LET neuron_id == new_v4(log)
          IN  TryAppend("AddRandomNeuron", [type |-> "RandomNeuronAdded", neuron_id |-> neuron_id,
                         activation |-> activation], neuron_id, {})
    /\ UNCHANGED <<network, memory>>

\* One turn of the loop over the taken targets: a SynapseCreated event towards
\* or from the new neuron (a fair coin), appended and then applied.
AddRandomNeuronAttach ==
    /\ pc = "attach"
    /\ \E target \in call.todo, weight \in Weights, inbound \in BOOLEAN :
          LET syn_id == new_v4(log)
              event == [type |-> "SynapseCreated", id |-> syn_id,
                        from |-> IF inbound THEN target ELSE call.id,
                        to |-> IF inbound THEN call.id ELSE target,
                        weight |-> weight]
          IN  TryAppend("AddRandomNeuron", event, call.id, call.todo \ {target})
    /\ UNCHANGED <<family, file, replicas, network, log0, memory>>

(***************************************************************************)
(* AddRandomSynapseHandler::handle (src/application/add_random_synapse.rs) *)
(***************************************************************************)
\* Candidate pairs that may join a neuron to itself.
AvailablePairsWithLoops(net) ==
    {p \in (DOMAIN net.neurons) \X (DOMAIN net.neurons) : ~Connected(net, p[1], p[2])}

\* The candidate pairs: ordered pairs of distinct neurons with no synapse in
\* that direction.
AvailablePairs(net) ==
    {p \in (DOMAIN net.neurons) \X (DOMAIN net.neurons) :
        /\ p[1] # p[2]
        /\ ~Connected(net, p[1], p[2])}

AddRandomSynapse ==
    /\ Enter("random")
    /\ IF Cardinality(DOMAIN network.neurons) < 2
       THEN Fail("AddRandomSynapse", "NotEnoughNeurons")
       ELSE IF AvailablePairs(network) = {}
       THEN Fail("AddRandomSynapse", "NoAvailableConnection")
       ELSE /\ Room(1, 1)
            /\ \E p \in AvailablePairs(network), weight \in Weights :
                  LET synapse_id == new_v4(log)
                  IN  TryAppend("AddRandomSynapse", [type |-> "RandomSynapseAdded", synapse_id |-> synapse_id,
                                 from |-> p[1], to |-> p[2], weight |-> weight],
                                synapse_id, {})
    /\ UNCHANGED <<network, memory>>

(***************************************************************************)
(* RemoveRandomNeuronHandler / RemoveRandomSynapseHandler ::handle.        *)
(***************************************************************************)
RemoveRandomNeuron ==
    /\ Enter("random")
    /\ IF DOMAIN network.neurons = {}
       THEN Fail("RemoveRandomNeuron", "NoNeuronAvailable")
       ELSE /\ Room(1, 0)
            /\ \E neuron_id \in DOMAIN network.neurons :
                  TryAppend("RemoveRandomNeuron", [type |-> "RandomNeuronRemoved", neuron_id |-> neuron_id],
                            neuron_id, {})
    /\ UNCHANGED <<network, memory>>

RemoveRandomSynapse ==
    /\ Enter("random")
    /\ IF DOMAIN network.synapses = {}
       THEN Fail("RemoveRandomSynapse", "NoSynapseAvailable")
       ELSE /\ Room(1, 0)
            /\ \E synapse_id \in DOMAIN network.synapses :
                  TryAppend("RemoveRandomSynapse", [type |-> "RandomSynapseRemoved", synapse_id |-> synapse_id],
                            synapse_id, {})
    /\ UNCHANGED <<network, memory>>

(***************************************************************************)
(* MutateRandomNeuronActivationHandler::handle.                            *)
(***************************************************************************)
\* A retain that keeps a neuron with an incoming or an outgoing synapse.
ActivationCandidatesInOrOut(net, exclude_io) ==
    {id \in DOMAIN net.neurons :
        exclude_io =>
            \/ \E s \in DOMAIN net.synapses : net.synapses[s].to = id
            \/ \E s \in DOMAIN net.synapses : net.synapses[s].from = id}

\* candidates, after `retain(has_in && has_out)` when exclude_io is set.
ActivationCandidates(net, exclude_io) ==
    {id \in DOMAIN net.neurons :
        exclude_io =>
            /\ \E s \in DOMAIN net.synapses : net.synapses[s].to = id
            /\ \E s \in DOMAIN net.synapses : net.synapses[s].from = id}

\* A draw among all the kinds, the current one included.
AnyActivation(old_activation) == DrawnActivations

\* activations.retain(|a| *a != old_activation): the kinds a draw picks among.
OtherActivations(old_activation) == DrawnActivations \ {old_activation}

MutateRandomNeuronActivation ==
    /\ Enter("random")
    /\ \E exclude_io \in BOOLEAN :
          IF ActivationCandidates(network, exclude_io) = {}
          THEN FailWith("MutateRandomNeuronActivation", "NoEligibleNeuron", exclude_io)
          ELSE /\ Room(1, 0)
               /\ \E neuron_id \in ActivationCandidates(network, exclude_io) :
                     LET old_activation == network.neurons[neuron_id].activation
                     IN  \E new_activation \in OtherActivations(old_activation) :
                            TryAppendWith("MutateRandomNeuronActivation",
                                          [type |-> "NeuronActivationMutated",
                                           neuron_id |-> neuron_id,
                                           old_activation |-> old_activation,
                                           new_activation |-> new_activation],
                                          neuron_id, {}, exclude_io)
    /\ UNCHANGED <<network, memory>>

(***************************************************************************)
(* MutateRandomSynapseWeightHandler::handle. The noise is any real, so the *)
(* new weight is any weight of the model.                                  *)
(***************************************************************************)
\* The standard deviations a command carries: any f64.
StdDevs == {F64(-1), F64(0), F64(1), NaN}

\* `cmd.std_dev <= 0.0`: false for NaN, as every comparison with NaN is.
LessOrEqualZero(x) == x.class = "finite" /\ x.value <= 0

\* Normal::new(0.0, std_dev) returns Ok; it is reached with a std_dev that is
\* positive or NaN, and refuses NaN.
NormalNew(std_dev) == std_dev.class = "finite"

MutateRandomSynapseWeight ==
    /\ Enter("random")
    /\ \E std_dev \in StdDevs :
          IF LessOrEqualZero(std_dev)
          THEN FailWith("MutateRandomSynapseWeight", "InvalidStdDev", std_dev)
          ELSE IF DOMAIN network.synapses = {}
          THEN FailWith("MutateRandomSynapseWeight", "NoSynapseAvailable", std_dev)
          ELSE IF ~NormalNew(std_dev)
          THEN FailWith("MutateRandomSynapseWeight", "InvalidStdDev", std_dev)
          ELSE /\ Room(1, 0)
               /\ \E synapse_id \in DOMAIN network.synapses, new_weight \in Weights :
                     TryAppendWith("MutateRandomSynapseWeight",
                                   [type |-> "SynapseWeightMutated", synapse_id |-> synapse_id,
                                    old_weight |-> network.synapses[synapse_id].weight,
                                    new_weight |-> new_weight], synapse_id, {}, std_dev)
    /\ UNCHANGED <<network, memory>>

\* The ids a caller names: those of the history and one new id.
CallerIds == UsedIds(log) \cup (IF FreeIds(log) = {} THEN {} ELSE {new_v4(log)})

(***************************************************************************)
(* SetSynapseWeightHandler::handle (src/application/set_synapse_weight.rs) *)
(***************************************************************************)
\* A handler that does not look the synapse up before it appends.
SetSynapseWeightUnchecked ==
    /\ Enter("random")
    /\ \E synapse_id \in CallerIds, new_weight \in Weights :
          /\ Room(1, 0)
          /\ TryAppend("SetSynapseWeight", [type |-> "SynapseWeightSet", synapse_id |-> synapse_id,
                         old_weight |-> IF synapse_id \in DOMAIN network.synapses
                                        THEN network.synapses[synapse_id].weight ELSE 0,
                         new_weight |-> new_weight], 0, {})
    /\ UNCHANGED <<network, memory>>

\* A handler that writes the two weights of the event the wrong way round.
SetSynapseWeightSwapped ==
    /\ Enter("random")
    /\ \E synapse_id \in CallerIds, new_weight \in Weights :
          IF synapse_id \notin DOMAIN network.synapses
          THEN Fail("SetSynapseWeight", "SynapseNotFound")
          ELSE /\ Room(1, 0)
               /\ TryAppendWith("SetSynapseWeight",
                                [type |-> "SynapseWeightSet", synapse_id |-> synapse_id,
                                 old_weight |-> new_weight,
                                 new_weight |-> network.synapses[synapse_id].weight],
                                0, {}, new_weight)
    /\ UNCHANGED <<network, memory>>

SetSynapseWeight ==
    /\ Enter("random")
    /\ \E synapse_id \in CallerIds, new_weight \in Weights :
          IF synapse_id \notin DOMAIN network.synapses
          THEN Fail("SetSynapseWeight", "SynapseNotFound")
          ELSE /\ Room(1, 0)
               /\ TryAppendWith("SetSynapseWeight",
                                [type |-> "SynapseWeightSet", synapse_id |-> synapse_id,
                                 old_weight |-> network.synapses[synapse_id].weight,
                                 new_weight |-> new_weight],
                                0, {}, new_weight)
    /\ UNCHANGED <<network, memory>>

(***************************************************************************)
(* CommandHandler::handle (src/application/command_handler.rs): the        *)
(* explicit commands, each turned into its event without any check.        *)
(***************************************************************************)
CommandEvents ==
    {[type |-> "NeuronAdded", neuron_id |-> id, activation |-> a] :
        id \in CallerIds, a \in DrawnActivations}
    \cup {[type |-> "NeuronRemoved", neuron_id |-> id] : id \in CallerIds}
    \cup {[type |-> "SynapseCreated", id |-> id, from |-> f, to |-> t, weight |-> w] :
        id \in CallerIds, f \in CallerIds, t \in CallerIds, w \in Weights}
    \cup {[type |-> "SynapseRemoved", id |-> id] : id \in CallerIds}

\* CommandHandler::handle for the node commands, CreateNeuron and
\* RemoveNeuron, on a log other handlers write to as well.
NodeCommandHandle ==
    /\ Enter("random")
    /\ family = "mixed"
    /\ Room(1, 0)
    /\ \E id \in CallerIds :
          \E event \in {[type |-> "NeuronAdded", neuron_id |-> id, activation |-> "Identity"],
                         [type |-> "NeuronRemoved", neuron_id |-> id]} :
             TryAppend("CommandHandler", event, 0, {})
    /\ UNCHANGED <<network, memory>>

CommandHandle ==
    /\ Enter("command")
    /\ Len(log) < MaxCmdLog
    /\ \E event \in CommandEvents : TryAppend("CommandHandler", event, 0, {})
    /\ UNCHANGED <<network, memory>>

(***************************************************************************)
(* RecalculateCuriosityScoreHandler                                        *)
(* (src/application/recalculate_curiosity_score.rs).                       *)
(* The scores the handler computes are 1.0 / (1.0 + n) for a count n, and  *)
(* the score of a node or edge no update has reached is 0.0: a score 1/d   *)
(* is written by its denominator d, and 0.0 by 0. A larger d is a smaller  *)
(* score.                                                                  *)
(***************************************************************************)
\* CuriosityScope
CuriosityScopes == {"Neuron", "Synapse", "All"}

\* The arm of `touches` for Event::SynapseWeightSet: the event references the
\* synapse whose weight it sets.
touches_synapse_weight_set(e, id) == e.synapse_id = id

\* A `touches` for which a score update does not reference its target.
touches_but_updates(e, id) ==
    CASE e.type \in {"RandomNeuronAdded", "RandomNeuronRemoved",
                     "NeuronAdded", "NeuronRemoved"} -> e.neuron_id = id
      [] e.type = "SynapseCreated" -> e.id = id \/ e.from = id \/ e.to = id
      [] e.type = "SynapseRemoved" -> e.id = id
      [] e.type = "RandomSynapseAdded" -> e.synapse_id = id \/ e.from = id \/ e.to = id
      [] e.type \in {"RandomSynapseRemoved", "SynapseWeightMutated"} -> e.synapse_id = id
      [] e.type = "SynapseWeightSet" -> touches_synapse_weight_set(e, id)
      [] e.type = "NeuronActivationMutated" -> e.neuron_id = id
      [] e.type = "CuriosityScoreUpdated" -> FALSE

\* touches: does the event reference `id`?
touches(e, id) ==
    CASE e.type \in {"RandomNeuronAdded", "RandomNeuronRemoved",
                     "NeuronAdded", "NeuronRemoved"} -> e.neuron_id = id
      [] e.type = "SynapseCreated" -> e.id = id \/ e.from = id \/ e.to = id
      [] e.type = "SynapseRemoved" -> e.id = id
      [] e.type = "RandomSynapseAdded" -> e.synapse_id = id \/ e.from = id \/ e.to = id
      [] e.type \in {"RandomSynapseRemoved", "SynapseWeightMutated"} -> e.synapse_id = id
      [] e.type = "SynapseWeightSet" -> touches_synapse_weight_set(e, id)
      [] e.type = "NeuronActivationMutated" -> e.neuron_id = id
      [] e.type = "CuriosityScoreUpdated" -> e.target_id = id

\* A score that counts only the latest event of the log.
compute_score_last(events, id) ==
    1 + (IF events # <<>> /\ touches(events[Len(events)], id) THEN 1 ELSE 0)

\* compute_score: 1.0 / (1.0 + occurrences), by its denominator.
compute_score(events, id) ==
    1 + Cardinality({i \in 1..Len(events) : touches(events[i], id)})

\* A handle() that emits an update for every target, whatever is stored.
ScoreDiffersAlways(new_score, old) == TRUE

\* `(new_score - old).abs() > f64::EPSILON`: two scores 1/a and 1/b, or 0.0
\* and 1/b, of the denominators the bounded log allows are further apart
\* than EPSILON as soon as they differ.
ScoreDiffers(new_score, old) == new_score # old

\* The stored score of handle(): the neuron's, else the synapse's, else the
\* default 0.0.
StoredScore(net, id) ==
    IF id \in DOMAIN net.neurons THEN net.neurons[id].curiosity_score
    ELSE IF id \in DOMAIN net.synapses THEN net.synapses[id].curiosity_score
    ELSE 0

\* The orders in which a HashMap may yield the keys `S`.
KeyOrders(S) ==
    {s \in [1..Cardinality(S) -> S] : \A i, j \in 1..Cardinality(S) : s[i] = s[j] => i = j}

\* The target_ids of a command: up to MaxTargets ids the caller names.
TargetLists == UNION {[1..n -> CallerIds] : n \in 0..MaxTargets}

\* resolve_targets: the ids of the command for the scopes Neuron and Synapse,
\* the neurons' keys chained with the synapses' keys for All.
resolve_targets(net, target_ids, scope) ==
    IF scope = "All"
    THEN {n \o s : n \in KeyOrders(DOMAIN net.neurons), s \in KeyOrders(DOMAIN net.synapses)}
    ELSE {target_ids}

\* A loop that computes each score against the log as the call has left it
\* so far, the events it appended included.
RECURSIVE RecalculateFromReloading(_, _, _, _, _)
RecalculateFromReloading(st, events, targets, i, fail_at) ==
    IF i > Len(targets) THEN st
    ELSE LET id == targets[i]
             old == StoredScore(st.network, id)
             new_score == compute_score(st.log, id)
             event == [type |-> "CuriosityScoreUpdated", target_id |-> id,
                       old_score |-> old, new_score |-> new_score]
         IN  IF ~ScoreDiffers(new_score, old)
             THEN RecalculateFromReloading(st, events, targets, i + 1, fail_at)
             ELSE IF Len(st.emitted) + 1 = fail_at
             THEN [st EXCEPT !.status = "StorageError", !.log = StoreAppend(st.log, event, FALSE)]
             ELSE RecalculateFromReloading([st EXCEPT !.log = StoreAppend(st.log, event, TRUE),
                                                      !.network = HandlerApplied(st.network, event),
                                                      !.emitted = Append(st.emitted, event)],
                                           events, targets, i + 1, fail_at)

\* The loop of handle() from target i on: for each target whose recomputed
\* score differs from the stored one, append the update, apply it and push it;
\* the append numbered `fail_at` fails and handle() returns its error.
RECURSIVE RecalculateFrom(_, _, _, _, _)
RecalculateFrom(st, events, targets, i, fail_at) ==
    IF i > Len(targets) THEN st
    ELSE LET id == targets[i]
             old == StoredScore(st.network, id)
             new_score == compute_score(events, id)
             event == [type |-> "CuriosityScoreUpdated", target_id |-> id,
                       old_score |-> old, new_score |-> new_score]
         IN  IF ~ScoreDiffers(new_score, old)
             THEN RecalculateFrom(st, events, targets, i + 1, fail_at)
             ELSE IF Len(st.emitted) + 1 = fail_at
             THEN [st EXCEPT !.status = "StorageError", !.log = StoreAppend(st.log, event, FALSE)]
             ELSE RecalculateFrom([st EXCEPT !.log = StoreAppend(st.log, event, TRUE),
                                             !.network = HandlerApplied(st.network, event),
                                             !.emitted = Append(st.emitted, event)],
                                  events, targets, i + 1, fail_at)

\* RecalculateCuriosityScoreHandler::handle: the events are loaded once, on
\* entry; Ok carries the emitted events.
RecalculateCuriosityScore ==
    /\ Enter("random")
    /\ \E target_ids \in TargetLists, scope \in CuriosityScopes, loaded \in BOOLEAN :
          /\ scope = "All" => target_ids = <<>>
          /\ IF ~loaded
             THEN /\ FailWith("RecalculateCuriosityScore", "StorageError",
                              [scope |-> scope, targets |-> target_ids])
                  /\ UNCHANGED network
             ELSE \E targets \in resolve_targets(network, target_ids, scope),
                     fail_at \in 0..MaxTargets :
                     /\ Room(Len(targets), 0)
                     /\ fail_at <= Len(targets)
                     /\ LET st == RecalculateFrom([log |-> log, network |-> network,
                                                   emitted |-> <<>>, status |-> "Ok"],
                                                  log, targets, 1, fail_at)
                        IN  /\ log' = st.log
                            /\ network' = st.network
                            /\ ret' = Returned("RecalculateCuriosityScore", st.status,
                                               IF st.status = "Ok" THEN st.emitted ELSE <<>>)
                            /\ pc' = "returned"
                            /\ call' = [NoCall EXCEPT !.arg = [scope |-> scope, targets |-> targets]]
    /\ UNCHANGED memory

(***************************************************************************)
(* AdaptiveMemory (src/domain/memory/mod.rs).                              *)
(***************************************************************************)
\* AdaptiveMemory::new
NewMemory(max_size) == [entries |-> <<>>, max_size |-> max_size]

\* An aggregate that keeps to its capacity on its own: an add beyond max_size
\* is dropped.
apply_entry_added_capped(mem, e) ==
    IF Len(mem.entries) >= mem.max_size THEN mem
    ELSE [mem EXCEPT !.entries = Append(@, e.entry)]

apply_entry_added(mem, e) == [mem EXCEPT !.entries = Append(@, e.entry)]

apply_entry_removed(mem, e) ==
    [mem EXCEPT !.entries = SelectSeq(@, LAMBDA x : x.id # e.entry_id)]

apply_pruned(mem, e) ==
    LET removed == {e.removed_entries[i] : i \in 1..Len(e.removed_entries)}
    IN  [mem EXCEPT !.entries = SelectSeq(@, LAMBDA x : x.id \notin removed)]

\* iter_mut().find(..): the first entry with the id gets the new score.
apply_score_updated(mem, e) ==
    LET hits == {i \in 1..Len(mem.entries) : mem.entries[i].id = e.entry_id}
    IN  IF hits = {} THEN mem
        ELSE LET first == CHOOSE i \in hits : \A j \in hits : i <= j
             IN  [mem EXCEPT !.entries[first].score = e.new_score]

MemoryApply(mem, e) ==
    CASE e.type = "MemoryEntryAdded" -> apply_entry_added(mem, e)
      [] e.type = "MemoryEntryRemoved" -> apply_entry_removed(mem, e)
      [] e.type = "MemoryPruned" -> apply_pruned(mem, e)
      [] e.type = "MemoryScoreUpdated" -> apply_score_updated(mem, e)

RECURSIVE MemoryHydrateFrom(_, _, _)
MemoryHydrateFrom(mem, events, i) ==
    IF i > Len(events) THEN mem
    ELSE MemoryHydrateFrom(MemoryApply(mem, events[i]), events, i + 1)

MemoryHydrate(max_size, events) == MemoryHydrateFrom(NewMemory(max_size), events, 1)

(***************************************************************************)
(* Memory command handlers (src/application/memory/handlers.rs).           *)
(***************************************************************************)
\* The entry id and the score a memory command carries (0 for the field a
\* command does not have).
MemoryCommand(entry_id, score) == [entry_id |-> entry_id, score |-> score]

\* Scores a command may carry: the valid ones, 0..MaxScore, one below, one above.
ScoreInputs == -1..(MaxScore + 1)

\* A range test without its upper end.
NonNegativeScore(score) == 0 <= score

\* (0.0..=1.0).contains(&score)
ValidScore(score) == 0 <= score /\ score <= MaxScore

\* A sort that orders by descending score.
SortedInsertDescending(sorted, x) ==
    LET n == Cardinality({i \in 1..Len(sorted) : sorted[i].score >= x.score})
    IN  SubSeq(sorted, 1, n) \o <<x>> \o SubSeq(sorted, n + 1, Len(sorted))

\* An ascending sort that puts a later entry before the earlier ones of equal score.
SortedInsertBeforeEqual(sorted, x) ==
    LET n == Cardinality({i \in 1..Len(sorted) : sorted[i].score < x.score})
    IN  SubSeq(sorted, 1, n) \o <<x>> \o SubSeq(sorted, n + 1, Len(sorted))

\* entries.sort_by(|a, b| a.score.partial_cmp(&b.score)): a stable sort,
\* ascending by score. Insertion of x after every entry not greater than it.
SortedInsert(sorted, x) ==
    LET n == Cardinality({i \in 1..Len(sorted) : sorted[i].score <= x.score})
    IN  SubSeq(sorted, 1, n) \o <<x>> \o SubSeq(sorted, n + 1, Len(sorted))

RECURSIVE SortByScoreFrom(_, _, _)
SortByScoreFrom(sorted, entries, i) ==
    IF i > Len(entries) THEN sorted
    ELSE SortByScoreFrom(SortedInsert(sorted, entries[i]), entries, i + 1)

SortByScore(entries) == SortByScoreFrom(<<>>, entries, 1)

\* A prune that takes the entries added last, whatever their scores.
LowestIdsNewest(mem) ==
    LET excess == Len(mem.entries) - mem.max_size
    IN  [i \in 1..excess |-> mem.entries[mem.max_size + i].id]

\* A prune that takes one entry fewer than the excess.
LowestIdsButOne(mem) ==
    LET excess == Len(mem.entries) - mem.max_size
        sorted == SortByScore(mem.entries)
    IN  [i \in 1..(excess - 1) |-> sorted[i].id]

\* The ids of the first `excess` entries of the sorted clone.
LowestIds(mem) ==
    LET excess == Len(mem.entries) - mem.max_size
        sorted == SortByScore(mem.entries)
    IN  [i \in 1..excess |-> sorted[i].id]

PrunedEvent(mem) == [type |-> "MemoryPruned", removed_entries |-> LowestIds(mem)]

\* Every memory handler's `new`: load the log and hydrate, with a max_size.
NewMemoryHandler(max_size) ==
    /\ family = "memory"
    /\ memory' = MemoryHydrate(max_size, log)
    /\ pc' = "idle"
    /\ call' = NoCall
    /\ ret' = NotReturned
    /\ log0' = log
    /\ UNCHANGED <<family, file, replicas, log, network>>

\* After a successful append: `self.memory.apply(&event)`, then the rest of
\* handle(). AddMemoryEntryHandler goes on to prune_lowest when the add made
\* the memory exceed max_size.
\* `self.memory.apply(&event)` in handle(), after the append succeeded.
MemoryHandlerApplied(mem, e) == MemoryApply(mem, e)

\* A handle() that prunes as soon as the memory is full.
MemoryApplyStepEager ==
    /\ family = "memory"
    /\ pc = "appended"
    /\ memory' = MemoryHandlerApplied(memory, call.event)
    /\ IF /\ call.event.type = "MemoryEntryAdded"
          /\ Len(memory'.entries) >= memory'.max_size
       THEN /\ pc' = "prune"
            /\ UNCHANGED <<call, ret>>
       ELSE /\ pc' = "returned"
            /\ call' = NoCall
            /\ ret' = Returned(call.op, "Ok", call.id)
    /\ UNCHANGED <<family, file, replicas, log, log0, network>>

MemoryApplyStep ==
    /\ family = "memory"
    /\ pc = "appended"
    /\ memory' = MemoryHandlerApplied(memory, call.event)
    /\ IF /\ call.event.type = "MemoryEntryAdded"
          /\ Len(memory'.entries) > memory'.max_size
       THEN /\ pc' = "prune"
            /\ UNCHANGED <<call, ret>>
       ELSE /\ pc' = "returned"
            /\ call' = NoCall
            /\ ret' = Returned(call.op, "Ok", call.id)
    /\ UNCHANGED <<family, file, replicas, log, log0, network>>

AddMemoryEntry ==
    /\ Enter("memory")
    /\ \E score \in ScoreInputs :
          IF ~ValidScore(score)
          THEN FailWith("AddMemoryEntry", "InvalidScore", MemoryCommand(0, score))
          ELSE /\ (IF Len(memory.entries) >= memory.max_size
                   THEN Room(2, 1) ELSE Room(1, 1))
               /\ LET entry == [id |-> new_v4(log), score |-> score]
                  IN  TryAppend("AddMemoryEntry", [type |-> "MemoryEntryAdded", entry |-> entry],
                                entry.id, {})
    /\ UNCHANGED <<network, memory>>

\* AddMemoryEntryHandler::prune_lowest, up to its append.
AddMemoryEntryPrune ==
    /\ pc = "prune"
    /\ TryAppend("AddMemoryEntry", PrunedEvent(memory), call.id, {})
    /\ UNCHANGED <<family, file, replicas, network, log0, memory>>

RemoveMemoryEntry ==
    /\ Enter("memory")
    /\ \E entry_id \in CallerIds :
          IF ~ \E i \in 1..Len(memory.entries) : memory.entries[i].id = entry_id
          THEN FailWith("RemoveMemoryEntry", "NotFound", MemoryCommand(entry_id, 0))
          ELSE /\ Room(1, 0)
               /\ TryAppend("RemoveMemoryEntry", [type |-> "MemoryEntryRemoved", entry_id |-> entry_id], 0, {})
    /\ UNCHANGED <<network, memory>>

\* A handler without the early return: it appends a prune event also when
\* the memory is within its capacity.
PruneMemoryUnchecked ==
    /\ Enter("memory")
    /\ Room(1, 0)
    /\ TryAppend("PruneMemory", PrunedEvent(memory), LowestIds(memory), {})
    /\ UNCHANGED <<network, memory>>

PruneMemory ==
    /\ Enter("memory")
    /\ IF Len(memory.entries) <= memory.max_size
       THEN /\ ret' = Returned("PruneMemory", "Ok", <<>>)
            /\ pc' = "returned"
            /\ call' = NoCall
            /\ UNCHANGED log
       ELSE /\ Room(1, 0)
            /\ TryAppend("PruneMemory", PrunedEvent(memory), LowestIds(memory), {})
    /\ UNCHANGED <<network, memory>>

\* A handler that looks the entry up before it checks the score.
UpdateMemoryScoreExistenceFirst ==
    /\ Enter("memory")
    /\ \E entry_id \in CallerIds, new_score \in ScoreInputs :
          IF ~ \E i \in 1..Len(memory.entries) : memory.entries[i].id = entry_id
          THEN FailWith("UpdateMemoryScore", "NotFound", MemoryCommand(entry_id, new_score))
          ELSE IF ~ValidScore(new_score)
          THEN FailWith("UpdateMemoryScore", "InvalidScore", MemoryCommand(entry_id, new_score))
          ELSE /\ Room(1, 0)
               /\ LET i == CHOOSE i \in 1..Len(memory.entries) :
                                /\ memory.entries[i].id = entry_id
                                /\ \A j \in 1..(i - 1) : memory.entries[j].id # entry_id
                  IN  TryAppend("UpdateMemoryScore", [type |-> "MemoryScoreUpdated", entry_id |-> entry_id,
                                 old_score |-> memory.entries[i].score,
                                 new_score |-> new_score], 0, {})
    /\ UNCHANGED <<network, memory>>

UpdateMemoryScore ==
    /\ Enter("memory")
    /\ \E entry_id \in CallerIds, new_score \in ScoreInputs :
          IF ~ValidScore(new_score)
          THEN FailWith("UpdateMemoryScore", "InvalidScore", MemoryCommand(entry_id, new_score))
          ELSE IF ~ \E i \in 1..Len(memory.entries) : memory.entries[i].id = entry_id
          THEN FailWith("UpdateMemoryScore", "NotFound", MemoryCommand(entry_id, new_score))
          ELSE /\ Room(1, 0)
               /\ LET i == CHOOSE i \in 1..Len(memory.entries) :
                                /\ memory.entries[i].id = entry_id
                                /\ \A j \in 1..(i - 1) : memory.entries[j].id # entry_id
                  IN  TryAppend("UpdateMemoryScore", [type |-> "MemoryScoreUpdated", entry_id |-> entry_id,
                                 old_score |-> memory.entries[i].score,
                                 new_score |-> new_score], 0, {})
    /\ UNCHANGED <<network, memory>>

\* The caller takes the result of handle() and is free to call again.
TakeResult ==
    /\ pc = "returned"
    /\ pc' = "idle"
    /\ ret' = NotReturned
    /\ log0' = log
    /\ call' = NoCall
    /\ UNCHANGED <<family, file, replicas, log, network, memory>>

(***************************************************************************)
(* FileEventStore (src/infrastructure/event_store.rs): one JSON document   *)
(* per line, written by serde_json::to_string and read back by             *)
(* serde_json::from_str. A store value holds the path only, so every call  *)
(* sees the file as any fresh handle on the path does.                     *)
(***************************************************************************)
\* The path names no file yet.
NoFile == [exists |-> FALSE, lines |-> <<>>]

\* serde_json writes a finite f64 as a JSON number and a non-finite one as null.
EncodeF64(x) ==
    IF x.class = "finite" THEN [json |-> "number", value |-> x.value]
    ELSE [json |-> "null", value |-> 0]

\* serde_json reads an f64 from a JSON number; null is not an f64.
DecodableF64(tok) == tok.json = "number"

DecodeF64(tok) == F64(tok.value)

\* serde_json::to_string(event): the variant name and the fields.
Encode(e) ==
    CASE e.type = "NeuronAdded" ->
            [variant |-> "NeuronAdded", neuron_id |-> e.neuron_id, activation |-> e.activation]
      [] e.type = "SynapseCreated" ->
            [variant |-> "SynapseCreated", id |-> e.id, from |-> e.from, to |-> e.to,
             weight |-> EncodeF64(e.weight)]
      [] e.type = "SynapseRemoved" -> [variant |-> "SynapseRemoved", id |-> e.id]

\* serde_json::from_str::<Event>(line) returns Ok.
Decodable(line) ==
    line.variant = "SynapseCreated" => DecodableF64(line.weight)

Decode(line) ==
    CASE line.variant = "NeuronAdded" ->
            [type |-> "NeuronAdded", neuron_id |-> line.neuron_id, activation |-> line.activation]
      [] line.variant = "SynapseCreated" ->
            [type |-> "SynapseCreated", id |-> line.id, from |-> line.from, to |-> line.to,
             weight |-> DecodeF64(line.weight)]
      [] line.variant = "SynapseRemoved" -> [type |-> "SynapseRemoved", id |-> line.id]

Loaded(status, events) == [status |-> status, events |-> events]

\* A load that keeps the events decoded before the line it cannot decode.
RECURSIVE LoadLinesKeepingPrefix(_, _, _)
LoadLinesKeepingPrefix(lines, i, events) ==
    IF i > Len(lines) \/ ~Decodable(lines[i]) THEN Loaded("Ok", events)
    ELSE LoadLinesKeepingPrefix(lines, i + 1, Append(events, Decode(lines[i])))

\* The loop of load(): the first line that does not decode ends it with the
\* error, and the events pushed so far are dropped with the vector.
RECURSIVE LoadLines(_, _, _)
LoadLines(lines, i, events) ==
    IF i > Len(lines) THEN Loaded("Ok", events)
    ELSE IF ~Decodable(lines[i]) THEN Loaded("DecodeError", <<>>)
    ELSE LoadLines(lines, i + 1, Append(events, Decode(lines[i])))

\* FileEventStore::load
Load(f) ==
    IF ~f.exists THEN Loaded("Ok", <<>>)
    ELSE LoadLines(f.lines, 1, <<>>)

\* Events a caller hands to append: explicit neurons, and a synapse between
\* them whose weight is any f64.
StoreEvents ==
    {[type |-> "NeuronAdded", neuron_id |-> id, activation |-> "Identity"] : id \in ReplayIds}
    \cup {[type |-> "SynapseCreated", id |-> ReplaySynapseId, from |-> 1, to |-> MaxReplayId,
            weight |-> w] : w \in {F64(1), NaN}}
    \cup {[type |-> "SynapseRemoved", id |-> ReplaySynapseId]}

\* FileEventStore::append: open with create+append, encode, write the line.
\* `log` keeps the events whose append returned Ok.
FileAppend ==
    /\ family = "store"
    /\ Len(file.lines) < MaxFile
    /\ \E e \in StoreEvents, ok \in BOOLEAN :
          IF ok
          THEN /\ file' = [exists |-> TRUE, lines |-> Append(file.lines, Encode(e))]
               /\ log' = Append(log, e)
               /\ ret' = Returned("append", "Ok", <<>>)
          ELSE /\ ret' = Returned("append", "StorageError", <<>>)
               /\ UNCHANGED <<file, log>>
    /\ UNCHANGED <<family, network, pc, call, log0, memory, replicas>>

\* FileEventStore::load, called by a user of the store.
FileLoad ==
    /\ family = "store"
    /\ ret' = Returned("load", Load(file).status, Load(file).events)
    /\ UNCHANGED <<family, log, network, pc, call, log0, memory, file, replicas>>

\* CommandHandler::new(store): `store.load()?`, then Network::hydrate. On an
\* error no handler comes to exist and the aggregate in use stays as it was.
FileNewHandler ==
    /\ family = "store"
    /\ IF Load(file).status = "Ok"
       THEN /\ network' = NetworkHydrate(Load(file).events)
            /\ ret' = Returned("new", "Ok", Load(file).events)
       ELSE /\ ret' = Returned("new", Load(file).status, <<>>)
            /\ UNCHANGED network
    /\ UNCHANGED <<family, log, pc, call, log0, memory, file, replicas>>

(***************************************************************************)
(* Hydration run twice on one event sequence: Network::hydrate             *)
(* (src/domain/network.rs) and AdaptiveMemory::hydrate                     *)
(* (src/domain/memory/mod.rs), each building an aggregate of its own.      *)
(***************************************************************************)
\* Graph events (enum Event) of a replayed sequence.
GraphReplayEvents ==
    {[type |-> "NeuronAdded", neuron_id |-> id, activation |-> "Identity"] : id \in ReplayIds}
    \cup {[type |-> "NeuronRemoved", neuron_id |-> id] : id \in ReplayIds}
    \cup {[type |-> "SynapseCreated", id |-> ReplaySynapseId, from |-> f, to |-> t, weight |-> 1] :
             f \in ReplayIds, t \in ReplayIds}
    \cup {[type |-> "SynapseRemoved", id |-> ReplaySynapseId]}
    \cup {[type |-> "SynapseWeightMutated", synapse_id |-> ReplaySynapseId,
            old_weight |-> 1, new_weight |-> 0]}
    \cup {[type |-> "NeuronActivationMutated", neuron_id |-> id,
            old_activation |-> "Identity", new_activation |-> "Sigmoid"] : id \in ReplayIds}
    \cup {[type |-> "CuriosityScoreUpdated", target_id |-> id, old_score |-> 0, new_score |-> 1] :
             id \in ReplayIds \cup {ReplaySynapseId}}

\* Memory events (enum MemoryEvent) of a replayed sequence.
MemoryReplayEvents ==
    {[type |-> "MemoryEntryAdded", entry |-> [id |-> id, score |-> sc]] :
        id \in ReplayIds, sc \in 0..MaxScore}
    \cup {[type |-> "MemoryEntryRemoved", entry_id |-> id] : id \in ReplayIds}
    \cup {[type |-> "MemoryPruned", removed_entries |-> <<id>>] : id \in ReplayIds}
    \cup {[type |-> "MemoryScoreUpdated", entry_id |-> id, old_score |-> 0, new_score |-> 1] :
             id \in ReplayIds}

IsMemoryEvent(e) ==
    e.type \in {"MemoryEntryAdded", "MemoryEntryRemoved", "MemoryPruned", "MemoryScoreUpdated"}

IsGraphEvent(e) == ~IsMemoryEvent(e)

SeqsUpTo(S, n) == UNION {[1..k -> S] : k \in 0..n}

\* A sequence holds events of one log: graph events or memory events.
ReplayLogs == SeqsUpTo(GraphReplayEvents, MaxReplay) \cup SeqsUpTo(MemoryReplayEvents, MaxReplay)

NotHydrated == [done |-> FALSE, network |-> EmptyNetwork, memory |-> NewMemory(0)]

NoReplicas == [r \in 1..2 |-> NotHydrated]

Reverse(events) == [i \in 1..Len(events) |-> events[Len(events) + 1 - i]]

\* A replay that may also take the events newest first.
HydrateOutcomesEitherOrder(events, max_size) ==
    {[done |-> TRUE,
      network |-> NetworkHydrate(SelectSeq(es, IsGraphEvent)),
      memory |-> MemoryHydrate(max_size, SelectSeq(es, IsMemoryEvent))] :
        es \in {events, Reverse(events)}}

\* What hydrate can return for a sequence: apply draws nothing at random and
\* iterates no hash map in an order that shows, so there is one outcome.
HydrateOutcomes(events, max_size) ==
    {[done |-> TRUE,
      network |-> NetworkHydrate(SelectSeq(events, IsGraphEvent)),
      memory |-> MemoryHydrate(max_size, SelectSeq(events, IsMemoryEvent))]}

\* One run of hydrate(events), and of hydrate(max_size, events) for a sequence
\* of memory events, into the aggregate of replica r.
Hydrate(r) ==
    /\ family = "replay"
    /\ \E out \in HydrateOutcomes(log, memory.max_size) :
          replicas' = [replicas EXCEPT ![r] = out]
    /\ UNCHANGED <<family, log, network, pc, call, ret, log0, memory, file>>

(***************************************************************************)
(* Hydration of an event sequence and of the same sequence with one more   *)
(* edge-creation event put at some position.                               *)
(***************************************************************************)
\* Edge-creation events (Event::SynapseCreated, Event::RandomSynapseAdded).
EdgeCreations ==
    {[type |-> "SynapseCreated", id |-> ReplaySynapseId, from |-> f, to |-> t, weight |-> 0] :
        f \in ReplayIds, t \in ReplayIds}
    \cup {[type |-> "RandomSynapseAdded", synapse_id |-> ReplaySynapseId, from |-> f, to |-> t,
            weight |-> 0] : f \in ReplayIds, t \in ReplayIds}

\* events with e put after its first `pos` events.
InsertAt(events, pos, e) ==
    SubSeq(events, 1, pos) \o <<e>> \o SubSeq(events, pos + 1, Len(events))

\* Replica 2 replays, once, the sequence with an edge creation inserted.
HydrateInserted ==
    /\ family = "insert"
    /\ ~replicas[2].done
    /\ \E pos \in 0..Len(log), e \in EdgeCreations :
          /\ replicas' = [replicas EXCEPT ![2] =
                  [done |-> TRUE, network |-> NetworkHydrate(InsertAt(log, pos, e)),
                   memory |-> NewMemory(0)]]
          /\ call' = [NoCall EXCEPT !.op = "insert", !.event = e, !.id = pos]
    /\ UNCHANGED <<family, log, network, pc, ret, log0, memory, file>>

\* Replica 1 replays, once, the sequence as it is.
HydratePlain ==
    /\ family = "insert"
    /\ ~replicas[1].done
    /\ replicas' = [replicas EXCEPT ![1] =
            [done |-> TRUE, network |-> NetworkHydrate(log), memory |-> NewMemory(0)]]
    /\ UNCHANGED <<family, log, network, pc, call, ret, log0, memory, file>>

(***************************************************************************)
(* Network::apply on events of any origin.                                 *)
(***************************************************************************)
\* One event of every graph kind for each choice of the ids it names, a
\* handler's or not.
AnyGraphEvents ==
    GraphReplayEvents
    \cup {[type |-> "RandomNeuronAdded", neuron_id |-> id, activation |-> "Identity"] :
             id \in ReplayIds}
    \cup {[type |-> "RandomNeuronRemoved", neuron_id |-> id] : id \in ReplayIds}
    \cup {[type |-> "RandomSynapseAdded", synapse_id |-> ReplaySynapseId, from |-> f, to |-> t,
            weight |-> 1] : f \in ReplayIds, t \in ReplayIds}
    \cup {[type |-> "RandomSynapseRemoved", synapse_id |-> ReplaySynapseId]}
    \cup {[type |-> "SynapseWeightSet", synapse_id |-> ReplaySynapseId, new_weight |-> 0]}

\* Network::apply with an event that no handler validated: the aggregate
\* takes the event, whatever it is.
ApplyAnyEvent ==
    /\ family = "apply"
    /\ \E e \in AnyGraphEvents : network' = NetworkApply(network, e)
    /\ UNCHANGED <<family, log, pc, call, ret, log0, memory, file, replicas>>

(***************************************************************************)
(* Specifications.                                                         *)
(***************************************************************************)
Init ==
    /\ family \in {"random", "command", "memory"}
    /\ log = <<>>
    /\ network = EmptyNetwork
    /\ memory \in {NewMemory(max_size) : max_size \in IF family = "memory" THEN 0..MaxSize ELSE {0}}
    /\ pc = "idle"
    /\ call = NoCall
    /\ ret = NotReturned
    /\ log0 = <<>>
    /\ file = NoFile
    /\ replicas = NoReplicas

NextGraph ==
    \/ TakeResult
    \/ NewGraphHandler
    \/ GraphApplyStep
    \/ AddRandomNeuron
    \/ AddRandomNeuronAttach
    \/ AddRandomSynapse
    \/ RemoveRandomNeuron
    \/ RemoveRandomSynapse
    \/ MutateRandomNeuronActivation
    \/ MutateRandomSynapseWeight
    \/ SetSynapseWeight

NextCommand ==
    \/ TakeResult
    \/ NewGraphHandler
    \/ GraphApplyStep
    \/ CommandHandle

NextMemory ==
    \/ TakeResult
    \/ \E max_size \in 0..MaxSize : NewMemoryHandler(max_size)
    \/ MemoryApplyStep
    \/ AddMemoryEntry
    \/ AddMemoryEntryPrune
    \/ RemoveMemoryEntry
    \/ PruneMemory
    \/ UpdateMemoryScore

Next == NextGraph \/ NextCommand \/ NextMemory

\* Every handler, on a log of its own family.
Spec == Init /\ [][Next]_vars

\* The random and weight-setting graph handlers.
InitGraph == Init /\ family = "random"

SpecGraph == InitGraph /\ [][NextGraph]_vars

\* The explicit CommandHandler.
InitCommand == Init /\ family = "command"

SpecCommand == InitCommand /\ [][NextCommand]_vars

\* The memory handlers.
InitMemory == Init /\ family = "memory"

SpecMemory == InitMemory /\ [][NextMemory]_vars

\* The memory handlers, all constructed with the same max_size.
NextSized ==
    \/ TakeResult
    \/ NewMemoryHandler(memory.max_size)
    \/ MemoryApplyStep
    \/ AddMemoryEntry
    \/ AddMemoryEntryPrune
    \/ RemoveMemoryEntry
    \/ PruneMemory
    \/ UpdateMemoryScore

SpecMemorySized == InitMemory /\ [][NextSized]_vars

\* Two hydrations of one event sequence.
InitReplay ==
    /\ family = "replay"
    /\ log \in ReplayLogs
    /\ network = EmptyNetwork
    /\ memory \in {NewMemory(max_size) :
                      max_size \in IF \E i \in 1..Len(log) : IsMemoryEvent(log[i])
                                   THEN 0..MaxSize ELSE {0}}
    /\ pc = "idle"
    /\ call = NoCall
    /\ ret = NotReturned
    /\ log0 = log
    /\ file = NoFile
    /\ replicas = NoReplicas

NextReplay == \E r \in 1..2 : Hydrate(r)

SpecReplay == InitReplay /\ [][NextReplay]_vars

\* A sequence of graph events replayed with and without an inserted edge creation.
InitInsert ==
    /\ family = "insert"
    /\ log \in SeqsUpTo(GraphReplayEvents, MaxInsertLog)
    /\ network = EmptyNetwork
    /\ memory = NewMemory(0)
    /\ pc = "idle"
    /\ call = NoCall
    /\ ret = NotReturned
    /\ log0 = log
    /\ file = NoFile
    /\ replicas = NoReplicas

NextInsert == HydratePlain \/ HydrateInserted

SpecInsert == InitInsert /\ [][NextInsert]_vars

\* Network::apply called with any event on the network any events left.
InitApply ==
    /\ family = "apply"
    /\ log = <<>>
    /\ network = EmptyNetwork
    /\ memory = NewMemory(0)
    /\ pc = "idle"
    /\ call = NoCall
    /\ ret = NotReturned
    /\ log0 = <<>>
    /\ file = NoFile
    /\ replicas = NoReplicas

NextApply == ApplyAnyEvent

SpecApply == InitApply /\ [][NextApply]_vars

\* The file-backed store, and handlers constructed on it.
InitStore ==
    /\ family = "store"
    /\ log = <<>>
    /\ network = EmptyNetwork
    /\ memory = NewMemory(0)
    /\ pc = "idle"
    /\ call = NoCall
    /\ ret = NotReturned
    /\ log0 = <<>>
    /\ file = NoFile
    /\ replicas = NoReplicas

NextStore == FileAppend \/ FileLoad \/ FileNewHandler

SpecStore == InitStore /\ [][NextStore]_vars

\* AddRandomNeuronHandler on a log in which explicit commands created up to
\* MaxSeed neurons and no synapse.
SeedLog(n) == [i \in 1..n |-> [type |-> "NeuronAdded", neuron_id |-> i, activation |-> "Identity"]]

InitSeeded ==
    /\ family = "seeded"
    /\ log \in {SeedLog(n) : n \in 0..MaxSeed}
    /\ network = NetworkHydrate(log)
    /\ memory = NewMemory(0)
    /\ pc = "idle"
    /\ call = NoCall
    /\ ret = NotReturned
    /\ log0 = log
    /\ file = NoFile
    /\ replicas = NoReplicas

NextSeeded ==
    \/ TakeResult
    \/ NewGraphHandler
    \/ GraphApplyStep
    \/ AddRandomNeuron
    \/ AddRandomNeuronAttach

SpecSeeded == InitSeeded /\ [][NextSeeded]_vars

\* The handlers that grow the graph and MutateRandomNeuronActivationHandler,
\* on such a log.
NextSeededActivation ==
    \/ TakeResult
    \/ NewGraphHandler
    \/ GraphApplyStep
    \/ AddRandomNeuron
    \/ AddRandomNeuronAttach
    \/ AddRandomSynapse
    \/ MutateRandomNeuronActivation

SpecSeededActivation == InitSeeded /\ [][NextSeededActivation]_vars

\* RecalculateCuriosityScoreHandler with the handlers that create, remove and
\* re-weight what it scores, on such a log.
NextCuriosity ==
    \/ TakeResult
    \/ NewGraphHandler
    \/ GraphApplyStep
    \/ AddRandomSynapse
    \/ RemoveRandomNeuron
    \/ SetSynapseWeight
    \/ RecalculateCuriosityScore

SpecCuriosity == InitSeeded /\ [][NextCuriosity]_vars

\* The handlers that change a field of what the graph holds, with
\* AddRandomSynapseHandler to give them synapses, on a seeded log.
NextMutation ==
    \/ TakeResult
    \/ NewGraphHandler
    \/ GraphApplyStep
    \/ AddRandomSynapse
    \/ MutateRandomSynapseWeight
    \/ SetSynapseWeight
    \/ MutateRandomNeuronActivation
    \/ RecalculateCuriosityScore

SpecMutation == InitSeeded /\ [][NextMutation]_vars

\* The explicit node commands and RecalculateCuriosityScoreHandler on one log.
InitMixed ==
    /\ family = "mixed"
    /\ log = <<>>
    /\ network = EmptyNetwork
    /\ memory = NewMemory(0)
    /\ pc = "idle"
    /\ call = NoCall
    /\ ret = NotReturned
    /\ log0 = <<>>
    /\ file = NoFile
    /\ replicas = NoReplicas

NextMixed ==
    \/ TakeResult
    \/ NewGraphHandler
    \/ GraphApplyStep
    \/ NodeCommandHandle
    \/ RecalculateCuriosityScore

SpecMixed == InitMixed /\ [][NextMixed]_vars

(***************************************************************************)
(* MemoryProjection (src/infrastructure/projection/memory_projection.rs)   *)
(* and its queries. The entries of the read model carry their type tag.    *)
(***************************************************************************)
\* Type tags of entries (MemoryEntry::event_type).
EventTypes == {"a", "b"}

\* Sequences of add events of entries with distinct ids.
ProjectionLogs ==
    UNION {{[i \in 1..k |-> [type |-> "MemoryEntryAdded",
                             entry |-> [id |-> i, score |-> sc[i], event_type |-> ty[i]]]] :
               sc \in [1..k -> 0..MaxScore], ty \in [1..k -> EventTypes]} : k \in 0..MaxEntries}

\* A sort that puts the lower scores first.
InsertAscending(sorted, x) ==
    LET n == Cardinality({i \in 1..Len(sorted) : sorted[i].score <= x.score})
    IN  SubSeq(sorted, 1, n) \o <<x>> \o SubSeq(sorted, n + 1, Len(sorted))

\* entries.sort_by(|a, b| b.score.partial_cmp(&a.score).unwrap()): a stable
\* sort, descending by score. Insertion of x after every entry not lower.
InsertDescending(sorted, x) ==
    LET n == Cardinality({i \in 1..Len(sorted) : sorted[i].score >= x.score})
    IN  SubSeq(sorted, 1, n) \o <<x>> \o SubSeq(sorted, n + 1, Len(sorted))

RECURSIVE SortDescendingFrom(_, _, _)
SortDescendingFrom(sorted, entries, i) ==
    IF i > Len(entries) THEN sorted
    ELSE SortDescendingFrom(InsertDescending(sorted, entries[i]), entries, i + 1)

\* into_iter().take(limit)
Take(entries, limit) ==
    SubSeq(entries, 1, IF limit < Len(entries) THEN limit ELSE Len(entries))

\* MemoryProjection::top_entries
top_entries(mem, limit) == Take(SortDescendingFrom(<<>>, mem.entries, 1), limit)

\* .filter(|e| e.event_type == event_type)
filter_event_type(entries, event_type) ==
    SelectSeq(entries, LAMBDA e : e.event_type = event_type)

\* MemoryProjection::entries_by_event_type
entries_by_event_type(mem, event_type, limit) ==
    Take(SortDescendingFrom(<<>>, filter_event_type(mem.entries, event_type), 1), limit)

\* MemoryQueryHandler::handle(MemoryQuery::GetTopEntries { limit })
GetTopEntries ==
    /\ family = "memory_query"
    /\ pc = "idle"
    /\ \E limit \in 0..(MaxEntries + 1) :
          /\ ret' = Returned("GetTopEntries", "Ok", top_entries(memory, limit))
          /\ call' = [NoCall EXCEPT !.arg = [limit |-> limit, event_type |-> "none"]]
    /\ pc' = "returned"
    /\ UNCHANGED <<family, log, log0, network, memory, file, replicas>>

\* MemoryQueryHandler::handle(MemoryQuery::GetByEventType { event_type, limit })
GetByEventType ==
    /\ family = "memory_query"
    /\ pc = "idle"
    /\ \E limit \in 0..(MaxEntries + 1), event_type \in EventTypes :
          /\ ret' = Returned("GetByEventType", "Ok", entries_by_event_type(memory, event_type, limit))
          /\ call' = [NoCall EXCEPT !.arg = [limit |-> limit, event_type |-> event_type]]
    /\ pc' = "returned"
    /\ UNCHANGED <<family, log, log0, network, memory, file, replicas>>

\* MemoryProjection::from_events on a sequence of add events, then queries.
InitMemoryQuery ==
    /\ family = "memory_query"
    /\ log \in ProjectionLogs
    /\ network = EmptyNetwork
    /\ memory = MemoryHydrate(MaxEntries, log)
    /\ pc = "idle"
    /\ call = NoCall
    /\ ret = NotReturned
    /\ log0 = log
    /\ file = NoFile
    /\ replicas = NoReplicas

NextMemoryQuery ==
    \/ TakeResult
    \/ GetTopEntries
    \/ GetByEventType

SpecMemoryQuery == InitMemoryQuery /\ [][NextMemoryQuery]_vars

(***************************************************************************)
(* CuriosityScoreProjection (src/infrastructure/projection/curiosity.rs)   *)
(* and QueryHandler (src/application/query_handler.rs).                    *)
(***************************************************************************)
\* Option<f64>
Some(v) == [some |-> TRUE, value |-> v]

None == [some |-> FALSE, value |-> 0]

\* CuriosityScoreProjection::default: no score.
NoScores == [id \in {} |-> 0]

\* An apply that keeps the score an id already has.
CuriosityApplyFirstWins(scores, e) ==
    IF e.type = "CuriosityScoreUpdated" /\ e.target_id \notin DOMAIN scores
    THEN (e.target_id :> e.new_score) @@ scores
    ELSE scores

\* CuriosityScoreProjection::apply: an update inserts its new_score under its
\* target_id; every other event is passed over.
CuriosityApply(scores, e) ==
    IF e.type = "CuriosityScoreUpdated"
    THEN (e.target_id :> e.new_score) @@ scores
    ELSE scores

RECURSIVE CuriosityFromEventsFrom(_, _, _)
CuriosityFromEventsFrom(scores, events, i) ==
    IF i > Len(events) THEN scores
    ELSE CuriosityFromEventsFrom(CuriosityApply(scores, events[i]), events, i + 1)

\* CuriosityScoreProjection::from_events
CuriosityFromEvents(events) == CuriosityFromEventsFrom(NoScores, events, 1)

\* CuriosityScoreProjection::get
CuriosityGet(scores, id) == IF id \in DOMAIN scores THEN Some(scores[id]) ELSE None

\* Events of a sequence the read models are built from: creation and removal
\* of nodes and score updates with two different scores.
QueryEvents ==
    {[type |-> "NeuronAdded", neuron_id |-> id, activation |-> "Identity"] : id \in ReplayIds}
    \cup {[type |-> "NeuronRemoved", neuron_id |-> id] : id \in ReplayIds}
    \cup {[type |-> "CuriosityScoreUpdated", target_id |-> id, old_score |-> 0, new_score |-> sc] :
             id \in ReplayIds, sc \in 1..2}

\* A handler whose curiosity projection is always attached.
GetCuriosityScoreAttached ==
    /\ family = "query"
    /\ pc = "idle"
    /\ \E id \in ReplayIds \cup {ReplaySynapseId}, attached \in BOOLEAN :
          /\ ret' = Returned("GetCuriosityScore", "Ok", CuriosityGet(CuriosityFromEvents(log), id))
          /\ call' = [NoCall EXCEPT !.arg = [id |-> id, attached |-> attached]]
    /\ pc' = "returned"
    /\ UNCHANGED <<family, log, log0, network, memory, file, replicas>>

\* QueryHandler::new(&network), with or without with_curiosity_projection of
\* the projection of the same events, then handle(Query::GetCuriosityScore).
GetCuriosityScore ==
    /\ family = "query"
    /\ pc = "idle"
    /\ \E id \in ReplayIds \cup {ReplaySynapseId}, attached \in BOOLEAN :
          /\ ret' = Returned("GetCuriosityScore", "Ok",
                             IF attached THEN CuriosityGet(CuriosityFromEvents(log), id) ELSE None)
          /\ call' = [NoCall EXCEPT !.arg = [id |-> id, attached |-> attached]]
    /\ pc' = "returned"
    /\ UNCHANGED <<family, log, log0, network, memory, file, replicas>>

\* NetworkProjection::from_events of a sequence of events, then queries.
InitQuery ==
    /\ family = "query"
    /\ log \in SeqsUpTo(QueryEvents, MaxReplay)
    /\ network = NetworkHydrate(log)
    /\ memory = NewMemory(0)
    /\ pc = "idle"
    /\ call = NoCall
    /\ ret = NotReturned
    /\ log0 = log
    /\ file = NoFile
    /\ replicas = NoReplicas

NextQuery ==
    \/ TakeResult
    \/ GetCuriosityScore

SpecQuery == InitQuery /\ [][NextQuery]_vars

-----------------------------------------------------------------------------
\* Properties.

\* The aggregate of the handler in use, and the replay of a log into a fresh
\* aggregate of the same kind (and, for a memory, the same max_size).
Aggregate == IF family = "memory" THEN memory ELSE network

Replay(events) ==
    IF family = "memory"
    THEN MemoryHydrate(memory.max_size, events)
    ELSE NetworkHydrate(events)

Errors ==
    {"StorageError", "NotEnoughNeurons", "NoAvailableConnection", "NoNeuronAvailable",
     "NoSynapseAvailable", "NoEligibleNeuron", "InvalidStdDev", "SynapseNotFound",
     "InvalidScore", "NotFound"}

HasReturned == pc = "returned"

\* C1: whenever no call is in progress -- after construction and after every
\* return of handle(), with Ok or with an error, of every handler -- the
\* handler's in-memory aggregate equals the aggregate hydrated from the log.
C1_AggregateIsReplayOfLog == pc \in {"idle", "returned"} => Aggregate = Replay(log)

\* A call that appended two or more events has returned.
C1_Witness ==
    /\ HasReturned
    /\ ret.status \in {"Ok", "StorageError"}
    /\ Len(log) >= Len(log0) + 2

\* C2: an event is appended before it is applied.  The events the aggregate has
\* applied are always a prefix of the log: all of it, or, between the append and
\* the apply of one event, all but that last record.  After a failed append the
\* aggregate has not applied the event, and a handler hydrated after a crash
\* between append and apply holds the whole log.
C2_AppendBeforeApply ==
    IF pc = "appended"
    THEN /\ Len(log) > 0
         /\ call.event = log[Len(log)]
         /\ Aggregate = Replay(SubSeq(log, 1, Len(log) - 1))
    ELSE Aggregate = Replay(log)

\* An event that changes the aggregate is in the log and not yet applied.
C2_Witness ==
    /\ pc = "appended"
    /\ Len(log) >= 2
    /\ Replay(log) # Aggregate

\* C3 as stated: whenever handle() has returned an error, the log is the log the
\* call found.
C3_ErrorLeavesLogUntouched == (HasReturned /\ ret.status \in Errors) => log = log0

\* C4 as stated, on the calls that return without having appended anything:
\* whenever AddMemoryEntryHandler.handle or PruneMemoryHandler.handle has
\* returned, memory holds at most max_size entries.
C4_EveryReturnWithinCapacity ==
    (HasReturned /\ ret.op \in {"AddMemoryEntry", "PruneMemory"} /\ log = log0)
        => Len(memory.entries) <= memory.max_size

\* C4: for every max_size and every log the handler was hydrated from, whenever
\* AddMemoryEntryHandler.handle or PruneMemoryHandler.handle has returned Ok,
\* memory holds at most max_size entries.
C4_OkReturnWithinCapacity ==
    (HasReturned /\ ret.op \in {"AddMemoryEntry", "PruneMemory"} /\ ret.status = "Ok")
        => Len(memory.entries) <= memory.max_size

\* An add on a memory hydrated over capacity has returned Ok: its prune pass
\* took the entry added and the excess it found.
C4_Witness ==
    /\ HasReturned
    /\ ret.op = "AddMemoryEntry"
    /\ ret.status = "Ok"
    /\ Len(log) = Len(log0) + 2
    /\ Len(log[Len(log)].removed_entries) >= 2

\* The entries ever added and not explicitly removed, with their last score:
\* the replay of the history without its MemoryPruned events.
IsPruned(e) == e.type = "MemoryPruned"

IsNotPruned(e) == ~IsPruned(e)

Unpruned(events) == MemoryHydrate(0, SelectSeq(events, IsNotPruned)).entries

EntryIds(entries) == {entries[i].id : i \in 1..Len(entries)}

Min(a, b) == IF a <= b THEN a ELSE b

\* `retained` are exactly the k highest-scoring of `candidates`.
IsTopK(retained, candidates, k) ==
    /\ Len(retained) = Min(k, Len(candidates))
    /\ \A i \in 1..Len(retained) : \E j \in 1..Len(candidates) : retained[i] = candidates[j]
    /\ \A i \in 1..Len(retained), j \in 1..Len(candidates) :
          candidates[j].id \notin EntryIds(retained) => retained[i].score >= candidates[j].score

\* C5 as stated, for sequences of commands that all returned Ok and left the
\* memory within capacity: the retained entries are exactly the max_size
\* highest-scoring of the entries ever added and not explicitly removed.
C5_RetainedAreTopOfUnremoved ==
    (HasReturned /\ ret.status = "Ok" /\ Len(memory.entries) <= memory.max_size)
        => IsTopK(memory.entries, Unpruned(log), memory.max_size)

OnlyAddsAndPrunes(events) ==
    \A i \in 1..Len(events) : events[i].type \in {"MemoryEntryAdded", "MemoryPruned"}

\* C5: with one max_size for every handler of the log, while the history holds
\* only add and prune events (no explicit removal, no score update), whenever
\* no call is running and memory is within capacity the retained entries are
\* exactly the max_size highest-scoring of all the entries ever added (all of
\* them when fewer were added).
C5_RetainedAreTopOfAdded ==
    (/\ pc \in {"idle", "returned"}
     /\ OnlyAddsAndPrunes(log)
     /\ Len(memory.entries) <= memory.max_size)
        => IsTopK(memory.entries, Unpruned(log), memory.max_size)

\* An add has returned Ok after pruning an entry that scored lower than the
\* one kept.
C5_Witness ==
    /\ HasReturned
    /\ ret.op = "AddMemoryEntry"
    /\ ret.status = "Ok"
    /\ OnlyAddsAndPrunes(log)
    /\ memory.max_size >= 1
    /\ Len(memory.entries) = memory.max_size
    /\ \E i \in 1..Len(memory.entries), j \in 1..Len(Unpruned(log)) :
          Unpruned(log)[j].score < memory.entries[i].score

\* C6: a prune pass over a memory with excess = len - max_size > 0 emits one
\* MemoryPruned event naming exactly `excess` distinct entries, in ascending
\* order of score and, for equal scores, of insertion: every removed entry
\* scores no higher than every kept one, an entry as low as a removed one is
\* kept only if it was inserted later, and applying the event leaves exactly
\* the kept entries, max_size of them, in their order.
C6_PruneTakesLowestStable ==
    (pc = "appended" /\ call.event.type = "MemoryPruned") =>
        LET es == memory.entries
            removed == call.event.removed_entries
            Pos(id) == CHOOSE i \in 1..Len(es) : es[i].id = id
            Gone == {i \in 1..Len(es) : \E r \in 1..Len(removed) : removed[r] = es[i].id}
            Kept == (1..Len(es)) \ Gone
            IsKept(entry) == \A r \in 1..Len(removed) : removed[r] # entry.id
        IN  /\ Len(es) > memory.max_size
            /\ Len(removed) = Len(es) - memory.max_size
            /\ Cardinality(Gone) = Len(removed)
            /\ \A r \in 1..Len(removed) : removed[r] \in EntryIds(es)
            /\ \A i \in Gone, j \in Kept :
                  \/ es[i].score < es[j].score
                  \/ es[i].score = es[j].score /\ i < j
            /\ \A a \in 1..Len(removed), b \in 1..Len(removed) :
                  a < b =>
                    \/ es[Pos(removed[a])].score < es[Pos(removed[b])].score
                    \/ /\ es[Pos(removed[a])].score = es[Pos(removed[b])].score
                       /\ Pos(removed[a]) < Pos(removed[b])
            /\ log[Len(log)] = call.event
            /\ MemoryApply(memory, call.event).entries = SelectSeq(es, IsKept)
            /\ Len(SelectSeq(es, IsKept)) = memory.max_size

\* A prune pass is under way that removes an entry and keeps one of the same score.
C6_Witness ==
    /\ pc = "appended"
    /\ call.event.type = "MemoryPruned"
    /\ \E i \in 1..Len(memory.entries), j \in 1..Len(memory.entries) :
          /\ memory.entries[i].score = memory.entries[j].score
          /\ \E r \in 1..Len(call.event.removed_entries) :
                call.event.removed_entries[r] = memory.entries[i].id
          /\ \A r \in 1..Len(call.event.removed_entries) :
                call.event.removed_entries[r] # memory.entries[j].id

\* `after` is `net` without neuron `id` and without every synapse that starts
\* or ends at `id`; everything else is as it was.
IsRemovalOf(after, net, id) ==
    /\ DOMAIN after.neurons = (DOMAIN net.neurons) \ {id}
    /\ \A n \in DOMAIN after.neurons : after.neurons[n] = net.neurons[n]
    /\ DOMAIN after.synapses =
          {s \in DOMAIN net.synapses : net.synapses[s].from # id /\ net.synapses[s].to # id}
    /\ \A s \in DOMAIN after.synapses : after.synapses[s] = net.synapses[s]

\* C7: applying NeuronRemoved or RandomNeuronRemoved for any id, in a handler
\* or in a replay, removes that neuron and every synapse whose from or to is
\* that id, and changes nothing else; a remove-random-neuron call that returned
\* Ok left exactly that of the network it found.
C7_NeuronRemovalCascades ==
    /\ \A id \in Ids, type \in {"NeuronRemoved", "RandomNeuronRemoved"} :
          IsRemovalOf(NetworkApply(network, [type |-> type, neuron_id |-> id]), network, id)
    /\ (HasReturned /\ ret.op = "RemoveRandomNeuron" /\ ret.status = "Ok") =>
          /\ ret.value \in DOMAIN NetworkHydrate(log0).neurons
          /\ log = Append(log0, [type |-> "RandomNeuronRemoved", neuron_id |-> ret.value])
          /\ IsRemovalOf(network, NetworkHydrate(log0), ret.value)

\* A remove-random-neuron call has returned Ok; the neuron had a synapse, which
\* went with it, and another neuron is left.
C7_Witness ==
    /\ HasReturned
    /\ ret.op = "RemoveRandomNeuron"
    /\ ret.status = "Ok"
    /\ DOMAIN network.neurons # {}
    /\ \E s \in DOMAIN NetworkHydrate(log0).synapses :
          \/ NetworkHydrate(log0).synapses[s].from = ret.value
          \/ NetworkHydrate(log0).synapses[s].to = ret.value

\* C8: in a graph built by the random handlers, whatever the sequence of
\* add-random-synapse calls, no synapse joins a neuron to itself and no two
\* synapses have the same ordered (from, to) pair.
C8_NoLoopNoDuplicatePair ==
    /\ \A s \in DOMAIN network.synapses : network.synapses[s].from # network.synapses[s].to
    /\ \A s \in DOMAIN network.synapses, t \in DOMAIN network.synapses :
          (/\ network.synapses[s].from = network.synapses[t].from
           /\ network.synapses[s].to = network.synapses[t].to) => s = t

\* An add-random-synapse call has returned Ok with a synapse between two
\* neurons already joined in the other direction.
C8_Witness ==
    /\ HasReturned
    /\ ret.op = "AddRandomSynapse"
    /\ ret.status = "Ok"
    /\ ret.value \in DOMAIN network.synapses
    /\ Connected(network, network.synapses[ret.value].to, network.synapses[ret.value].from)

\* `net` with synapse `id` set to (from, to, weight), everything else kept.
WithSynapse(net, id, from, to, weight) ==
    [neurons |-> net.neurons,
     synapses |-> [s \in (DOMAIN net.synapses) \cup {id} |->
                      IF s = id THEN SynapseWithId(from, to, weight) ELSE net.synapses[s]]]

C10_AddRandomSynapseOutcomes ==
    (HasReturned /\ ret.op = "AddRandomSynapse") =>
        LET before == NetworkHydrate(log0)
            nodes == DOMAIN before.neurons
            joined(a, b) == \E s \in DOMAIN before.synapses :
                                before.synapses[s].from = a /\ before.synapses[s].to = b
            full == \A a \in nodes, b \in nodes : a # b => joined(a, b)
        IN  /\ ret.status = "NotEnoughNeurons" <=> Cardinality(nodes) < 2
            /\ ret.status = "NoAvailableConnection" <=> (Cardinality(nodes) >= 2 /\ full)
            /\ ret.status \in {"NotEnoughNeurons", "NoAvailableConnection", "StorageError", "Ok"}
            /\ ret.status # "Ok" => log = log0 /\ network = before
            /\ ret.status = "Ok" =>
                  /\ Len(log) = Len(log0) + 1
                  /\ SubSeq(log, 1, Len(log0)) = log0
                  /\ LET e == log[Len(log)]
                     IN  /\ e.type = "RandomSynapseAdded"
                         /\ e.synapse_id = ret.value
                         /\ e.synapse_id \notin DOMAIN before.synapses
                         /\ e.from \in nodes
                         /\ e.to \in nodes
                         /\ e.from # e.to
                         /\ ~joined(e.from, e.to)
                         /\ network = WithSynapse(before, e.synapse_id, e.from, e.to, e.weight)

\* Add-random-synapse has returned NoAvailableConnection on two neurons joined
\* in both directions.
C10_Witness ==
    /\ HasReturned
    /\ ret.op = "AddRandomSynapse"
    /\ ret.status = "NoAvailableConnection"
    /\ Cardinality(DOMAIN network.synapses) >= 2

\* C11: after add-random-neuron has returned Ok on a graph that had N other
\* neurons, the call has appended the node event and then, when N >= 1, between
\* 1 and N SynapseCreated events, each joining the new neuron with another
\* neuron in one direction or the other, no two with the same other neuron;
\* every one of these synapses is in the aggregate. When N = 0 the call has
\* appended the node event only.
C11_NewNeuronIsAttached ==
    (HasReturned /\ ret.op = "AddRandomNeuron" /\ ret.status = "Ok") =>
        LET before == NetworkHydrate(log0)
            others == DOMAIN before.neurons
            new == ret.value
            made == SubSeq(log, Len(log0) + 2, Len(log))
            Other(e) == IF e.from = new THEN e.to ELSE e.from
        IN  /\ Len(log) > Len(log0)
            /\ SubSeq(log, 1, Len(log0)) = log0
            /\ log[Len(log0) + 1].type = "RandomNeuronAdded"
            /\ log[Len(log0) + 1].neuron_id = new
            /\ new \notin others
            /\ DOMAIN network.neurons = others \cup {new}
            /\ IF others = {} THEN Len(made) = 0
               ELSE Len(made) >= 1 /\ Len(made) <= Cardinality(others)
            /\ \A i \in 1..Len(made) :
                  /\ made[i].type = "SynapseCreated"
                  /\ (made[i].from = new) # (made[i].to = new)
                  /\ Other(made[i]) \in others
                  /\ made[i].id \in DOMAIN network.synapses
                  /\ network.synapses[made[i].id].from = made[i].from
                  /\ network.synapses[made[i].id].to = made[i].to
                  /\ network.synapses[made[i].id].weight = made[i].weight
            /\ \A i \in 1..Len(made), j \in 1..Len(made) :
                  i # j => /\ Other(made[i]) # Other(made[j])
                           /\ made[i].id # made[j].id
            /\ DOMAIN network.synapses =
                  (DOMAIN before.synapses) \cup {made[i].id : i \in 1..Len(made)}

\* Add-random-neuron has returned Ok on a graph of two neurons, having joined
\* the new neuron with both.
C11_Witness ==
    /\ HasReturned
    /\ ret.op = "AddRandomNeuron"
    /\ ret.status = "Ok"
    /\ Cardinality(DOMAIN NetworkHydrate(log0).neurons) = 2
    /\ Len(log) = Len(log0) + 3

NeuronsAt(pos) == DOMAIN NetworkHydrate(SubSeq(log, 1, pos)).neurons

\* The inserted edge creation names an end that does not exist where it is put.
InsertedIsInapplicable ==
    /\ call.op = "insert"
    /\ ~(call.event.from \in NeuronsAt(call.id) /\ call.event.to \in NeuronsAt(call.id))

\* C13: an edge-creation event (SynapseCreated or RandomSynapseAdded) whose
\* ends do not both exist at the position where it is inserted changes nothing:
\* the replay of the sequence with it yields the same neurons and the same
\* synapses as the replay of the sequence without it.
C13_InapplicableCreationIsIgnored ==
    (family = "insert" /\ replicas[1].done /\ replicas[2].done /\ InsertedIsInapplicable) =>
        /\ replicas[2].network.neurons = replicas[1].network.neurons
        /\ replicas[2].network.synapses = replicas[1].network.synapses

C13_Witness ==
    /\ family = "insert"
    /\ replicas[1].done /\ replicas[2].done
    /\ InsertedIsInapplicable
    /\ call.id = 1
    /\ call.event.from # call.event.to
    /\ {call.event.from, call.event.to} \subseteq DOMAIN replicas[1].network.neurons

\* Identifiers an event may name: those the handlers use and one they never use.
TargetIds == 1..(MaxId + 1)

\* Events that remove or change the neuron `id`.
NeuronTargeting(id) ==
    {[type |-> "NeuronRemoved", neuron_id |-> id],
     [type |-> "RandomNeuronRemoved", neuron_id |-> id]}
    \cup {[type |-> "NeuronActivationMutated", neuron_id |-> id,
            old_activation |-> "Identity", new_activation |-> a] : a \in DrawnActivations}

\* Events that remove or change the synapse `id`.
SynapseTargeting(id) ==
    {[type |-> "SynapseRemoved", id |-> id],
     [type |-> "RandomSynapseRemoved", synapse_id |-> id]}
    \cup {[type |-> "SynapseWeightMutated", synapse_id |-> id, old_weight |-> 0, new_weight |-> w] :
             w \in Weights}

ScoreTargeting(id) ==
    {[type |-> "CuriosityScoreUpdated", target_id |-> id, old_score |-> 0, new_score |-> MaxScore]}

\* C14: graph apply is total and an event on an absent target is a no-op. An
\* edge removal, a weight mutation, an activation mutation, a node removal or
\* a curiosity-score update whose target id is not present leaves the whole
\* aggregate as it is: neurons, synapses, weights, activations and scores.
C14_AbsentTargetIsNoOp ==
    (family \in {"random", "command"}) =>
        \A id \in TargetIds :
            /\ id \notin DOMAIN network.neurons =>
                  \A e \in NeuronTargeting(id) : NetworkApply(network, e) = network
            /\ id \notin DOMAIN network.synapses =>
                  \A e \in SynapseTargeting(id) : NetworkApply(network, e) = network
            /\ id \notin (DOMAIN network.neurons) \cup (DOMAIN network.synapses) =>
                  \A e \in ScoreTargeting(id) : NetworkApply(network, e) = network

\* The explicit handler has applied a removal that names an id the aggregate
\* does not hold, while the aggregate holds a neuron and a synapse.
C14_Witness ==
    /\ family = "command"
    /\ pc = "returned"
    /\ Len(log) = Len(log0) + 1
    /\ log[Len(log)].type \in {"NeuronRemoved", "SynapseRemoved"}
    /\ EventIds(log[Len(log)]) \cap ((DOMAIN NetworkHydrate(log0).neurons)
                                      \cup (DOMAIN NetworkHydrate(log0).synapses)) = {}
    /\ DOMAIN network.neurons # {}
    /\ network = NetworkHydrate(log0)

\* C15: load() returns exactly the events appended so far, oldest first, also
\* through a fresh handle on the path; on a store never written it returns the
\* empty sequence and no error; a handler constructed on the store has applied
\* the appended events in that order.
C15_LoadReturnsAppended ==
    (family = "store") =>
        /\ ret.op = "load" => (ret.status = "Ok" /\ ret.value = log)
        /\ ret.op = "new" => (ret.status = "Ok" /\ network = NetworkHydrate(log))

\* The file holds a line that does not decode.
HasUndecodable(f) == \E i \in 1..Len(f.lines) : ~Decodable(f.lines[i])

\* C17: when a record of the log cannot be decoded, load() fails as a whole:
\* it returns the error and no event, not the decodable prefix; and
\* constructing a handler on that log fails and hydrates no aggregate.
C17_UndecodableRecordFailsLoad ==
    [][(family = "store" /\ ret'.op \in {"load", "new"} /\ HasUndecodable(file')) =>
          /\ ret'.status = "DecodeError"
          /\ ret'.value = <<>>
          /\ network' = network]_vars

\* A handler construction has failed on a file whose first line is a neuron
\* creation and whose second does not decode: no neuron was hydrated.
C17_Witness ==
    /\ family = "store"
    /\ ret.op = "new"
    /\ ret.status = "DecodeError"
    /\ Len(file.lines) >= 2
    /\ file.lines[1].variant = "NeuronAdded"
    /\ ~Decodable(file.lines[2])
    /\ network = EmptyNetwork

IsPrefix(s, t) == Len(s) <= Len(t) /\ SubSeq(t, 1, Len(s)) = s

\* C16: the log is append-only under every handler operation. No step of any
\* handler modifies or deletes an appended event, so the log a handle() call
\* found is a prefix of the log it leaves, also for node removal, memory
\* removal and pruning, and for events that have become inapplicable.
C16_LogIsAppendOnly ==
    [][IsPrefix(log, log') /\ IsPrefix(log0', log')]_vars

\* A prune has returned: the log holds the add events of the pruned entries,
\* before the prune event, and the memory no longer holds them.
C16_Witness ==
    /\ family = "memory"
    /\ pc = "returned"
    /\ ret.status = "Ok"
    /\ Len(log) > Len(log0)
    /\ log[Len(log)].type = "MemoryPruned"
    /\ Len(log[Len(log)].removed_entries) >= 1
    /\ \A i \in 1..Len(log[Len(log)].removed_entries) :
          /\ \E j \in 1..Len(log) : /\ log[j].type = "MemoryEntryAdded"
                                     /\ log[j].entry.id = log[Len(log)].removed_entries[i]
          /\ \A k \in 1..Len(memory.entries) :
                memory.entries[k].id # log[Len(log)].removed_entries[i]

\* The event of an explicit command that names a target `net` does not hold:
\* a removal of an absent neuron or synapse, a creation with an absent end.
NamesAbsentTarget(e, net) ==
    \/ e.type = "NeuronRemoved" /\ e.neuron_id \notin DOMAIN net.neurons
    \/ e.type = "SynapseRemoved" /\ e.id \notin DOMAIN net.synapses
    \/ e.type = "SynapseCreated" /\ ~(e.from \in DOMAIN net.neurons /\ e.to \in DOMAIN net.neurons)

\* C18: an explicit graph command that names a nonexistent target id
\* (RemoveNeuron or RemoveSynapse for an absent id, CreateSynapse with an end
\* that does not exist) is answered with a validation error and appends no
\* event: the explicit handler never adds to the log an event whose target the
\* aggregate lacked when the command came in.
C18_AbsentTargetIsRejected ==
    (family = "command" /\ Len(log) = Len(log0) + 1) =>
        ~NamesAbsentTarget(log[Len(log)], NetworkHydrate(log0))

\* A step that enters SetSynapseWeightHandler::handle.
SetSynapseWeightStep ==
    /\ family = "random"
    /\ pc = "idle"
    /\ call'.op = "SetSynapseWeight" \/ ret'.op = "SetSynapseWeight"

\* C19: set-edge-weight on an id that is not an edge of the aggregate returns
\* SynapseNotFound, appends no event and leaves the aggregate unchanged. The
\* handler appends only for an id the aggregate holds; when the aggregate
\* holds no edge every call returns SynapseNotFound; and a call that returns
\* SynapseNotFound has changed neither the log nor the aggregate.
C19_AbsentEdgeIsNotFound ==
    [][SetSynapseWeightStep =>
          /\ log' # log => call'.event.synapse_id \in DOMAIN network.synapses
          /\ DOMAIN network.synapses = {} => ret'.status = "SynapseNotFound"
          /\ ret'.status = "SynapseNotFound" =>
                (log' = log /\ network' = network /\ pc' = "returned")]_vars

\* SynapseNotFound has been returned by a handler whose aggregate holds an edge.
C19_Witness ==
    /\ family = "random"
    /\ pc = "returned"
    /\ ret.op = "SetSynapseWeight"
    /\ ret.status = "SynapseNotFound"
    /\ DOMAIN network.synapses # {}
    /\ log = log0
    /\ network = NetworkHydrate(log)

\* C20: a set-edge-weight command that succeeds leaves as last log event a
\* SynapseWeightSet carrying the edge's previous weight as old_weight and the
\* requested weight as new_weight, and the edge then has the requested weight
\* in the handler's aggregate and in an aggregate (or projection, which wraps
\* one) rebuilt by replaying the log.
C20_SetWeightIsRecordedAndApplied ==
    [][(family = "random" /\ pc = "appended" /\ call.op = "SetSynapseWeight"
            /\ ret'.op = "SetSynapseWeight") =>
          LET e == log'[Len(log')]
          IN  /\ ret'.status = "Ok"
              /\ log' = Append(log0, e)
              /\ e.type = "SynapseWeightSet"
              /\ e.synapse_id \in DOMAIN NetworkHydrate(log0).synapses
              /\ e.old_weight = NetworkHydrate(log0).synapses[e.synapse_id].weight
              /\ e.new_weight = call.arg
              /\ network'.synapses[e.synapse_id].weight = call.arg
              /\ NetworkHydrate(log').synapses[e.synapse_id].weight = call.arg]_vars

\* A set-edge-weight has returned Ok after changing the weight of an edge.
C20_Witness ==
    /\ family = "random"
    /\ pc = "returned"
    /\ ret.op = "SetSynapseWeight"
    /\ ret.status = "Ok"
    /\ log[Len(log)].type = "SynapseWeightSet"
    /\ log[Len(log)].old_weight # log[Len(log)].new_weight
    /\ network.synapses[log[Len(log)].synapse_id].weight = log[Len(log)].new_weight

\* The command's standard deviation is strictly positive.
StrictlyPositive(x) == x.class = "finite" /\ x.value > 0

\* C21: mutate-random-edge-weight with a standard deviation that is not
\* strictly positive returns InvalidStdDev, also on a graph without edge, with
\* log and aggregate unchanged; NoSynapseAvailable is returned, without an
\* append, only to a command whose standard deviation is strictly positive
\* and when there is no edge.
C21_InvalidStdDevComesFirst ==
    (family = "random" /\ pc = "returned" /\ ret.op = "MutateRandomSynapseWeight"
        /\ ret.status \in {"InvalidStdDev", "NoSynapseAvailable"}) =>
        /\ log = log0
        /\ network = NetworkHydrate(log0)
        /\ ret.status = "InvalidStdDev" <=> ~StrictlyPositive(call.arg)
        /\ ret.status = "NoSynapseAvailable" => DOMAIN network.synapses = {}

\* C22: a successful mutate-random-node-activation changes the activation of
\* the node it returns. The emitted event's old_activation is the node's
\* activation before the command, its new_activation is another kind, and the
\* node has new_activation afterwards in the handler and on replay of the log.
C22_ActivationReallyChanges ==
    (pc = "returned" /\ ret.op = "MutateRandomNeuronActivation" /\ ret.status = "Ok") =>
        LET e == log[Len(log)]
            before == NetworkHydrate(log0)
        IN  /\ log = Append(log0, e)
            /\ e.type = "NeuronActivationMutated"
            /\ e.neuron_id = ret.value
            /\ e.neuron_id \in DOMAIN before.neurons
            /\ e.old_activation = before.neurons[e.neuron_id].activation
            /\ e.new_activation \in Activations \ {e.old_activation}
            /\ network.neurons[e.neuron_id].activation = e.new_activation
            /\ NetworkHydrate(log).neurons[e.neuron_id].activation = e.new_activation

\* The activation of a neuron that was mutated before has been mutated again.
C22_Witness ==
    /\ family = "random"
    /\ pc = "returned"
    /\ ret.op = "MutateRandomNeuronActivation"
    /\ ret.status = "Ok"
    /\ Len(log) >= 3
    /\ log[Len(log) - 1].type = "NeuronActivationMutated"
    /\ log[Len(log) - 1].neuron_id = ret.value
    /\ network.neurons[ret.value].activation = log[Len(log)].new_activation

\* The neuron has an incoming and an outgoing synapse.
HasInAndOut(net, id) ==
    /\ \E s \in DOMAIN net.synapses : net.synapses[s].to = id
    /\ \E s \in DOMAIN net.synapses : net.synapses[s].from = id

\* C23: with the boundary-exclusion flag set, mutate-random-node-activation
\* mutates only a node with an incoming and an outgoing edge and returns
\* NoEligibleNeuron, without appending, exactly when there is no such node;
\* with the flag clear it mutates any existing node and returns the error
\* only on an empty graph.
C23_BoundaryExclusion ==
    /\ (pc = "appended" /\ call.op = "MutateRandomNeuronActivation") =>
          /\ call.event.neuron_id \in DOMAIN network.neurons
          /\ call.arg => HasInAndOut(network, call.event.neuron_id)
    /\ (pc = "returned" /\ ret.op = "MutateRandomNeuronActivation"
            /\ ret.status = "NoEligibleNeuron") =>
          /\ log = log0
          /\ network = NetworkHydrate(log0)
          /\ call.arg => \A id \in DOMAIN network.neurons : ~HasInAndOut(network, id)
          /\ ~call.arg => DOMAIN network.neurons = {}

\* With the flag set, a neuron between two others is being mutated while the
\* graph holds neurons that are not eligible.
C23_Witness ==
    /\ pc = "appended"
    /\ call.op = "MutateRandomNeuronActivation"
    /\ call.arg
    /\ HasInAndOut(network, call.event.neuron_id)
    /\ \E id \in DOMAIN network.neurons : ~HasInAndOut(network, id)

\* C24: remove-random-node returns NoNeuronAvailable, and remove-random-edge
\* NoSynapseAvailable, and appends nothing when the aggregate has no node
\* (no edge); otherwise the id it returns was present before the call and is
\* absent after it, in the handler and on replay of the log.
C24_RandomRemoval ==
    (family = "random" /\ pc = "returned") =>
        LET before == NetworkHydrate(log0)
            after == NetworkHydrate(log)
        IN  /\ ret.op = "RemoveRandomNeuron" =>
                  /\ DOMAIN before.neurons = {} =>
                        (ret.status = "NoNeuronAvailable" /\ log = log0 /\ network = before)
                  /\ ret.status = "NoNeuronAvailable" => DOMAIN before.neurons = {}
                  /\ ret.status = "Ok" =>
                        /\ ret.value \in DOMAIN before.neurons
                        /\ ret.value \notin DOMAIN network.neurons
                        /\ ret.value \notin DOMAIN after.neurons
            /\ ret.op = "RemoveRandomSynapse" =>
                  /\ DOMAIN before.synapses = {} =>
                        (ret.status = "NoSynapseAvailable" /\ log = log0 /\ network = before)
                  /\ ret.status = "NoSynapseAvailable" => DOMAIN before.synapses = {}
                  /\ ret.status = "Ok" =>
                        /\ ret.value \in DOMAIN before.synapses
                        /\ ret.value \notin DOMAIN network.synapses
                        /\ ret.value \notin DOMAIN after.synapses

\* A remove-random-edge call has returned Ok on a graph whose neurons stay.
C24_Witness ==
    /\ family = "random"
    /\ pc = "returned"
    /\ ret.op = "RemoveRandomSynapse"
    /\ ret.status = "Ok"
    /\ log[Len(log)].type = "RandomSynapseRemoved"
    /\ log[Len(log)].synapse_id = ret.value
    /\ Cardinality(DOMAIN network.neurons) >= 2

-----------------------------------------------------------------------------
\* Curiosity scores.

\* A handle() of the RecalculateCuriosityScoreHandler has returned Ok; its
\* command and resolved targets are in call.arg, the events it loaded are log0.
RecalculateReturned ==
    /\ pc = "returned"
    /\ ret.op = "RecalculateCuriosityScore"
    /\ ret.status = "Ok"

\* The events of a log that name `id` as their subject or as an endpoint of
\* their edge (src/domain/events.rs).
Occurrences(events, id) ==
    Cardinality({i \in 1..Len(events) : id \in EventIds(events[i])})

\* C25: the score a recalculation gives a target is 1 / (1 + occurrences),
\* where occurrences counts the events of the whole loaded log that reference
\* the id as subject or edge endpoint, of every kind (creation, removal, weight
\* mutation, weight set, activation mutation, earlier score updates): every
\* emitted update carries that score, and every target the graph holds has it
\* stored when handle() returns.
C25_ScoreIsInverseOfOccurrences ==
    RecalculateReturned =>
        /\ \A i \in 1..Len(ret.value) :
              ret.value[i].new_score = 1 + Occurrences(log0, ret.value[i].target_id)
        /\ \A i \in 1..Len(call.arg.targets) :
              LET id == call.arg.targets[i]
              IN  id \in DOMAIN network.neurons \cup DOMAIN network.synapses
                  => StoredScore(network, id) = 1 + Occurrences(log0, id)

\* A synapse that was created, explicitly re-weighted and scored before is
\* scored again: its creation, weight set and earlier update all count.
C25_Witness ==
    /\ RecalculateReturned
    /\ \E i \in 1..Len(ret.value) :
          LET id == ret.value[i].target_id
          IN  /\ id \in DOMAIN network.synapses
              /\ \E j \in 1..Len(log0) : log0[j].type = "SynapseWeightSet" /\ log0[j].synapse_id = id
              /\ \E j \in 1..Len(log0) : log0[j].type = "CuriosityScoreUpdated" /\ log0[j].target_id = id
              /\ ret.value[i].new_score = 4

\* The graph the handler held when handle() was entered.
NetworkBefore == NetworkHydrate(log0)

\* The score recomputed for a target from the loaded log.
Recomputed(id) == 1 + Occurrences(log0, id)

\* The score stored for the i-th target when the loop reaches it: that of the
\* graph on entry, or, for a node or edge an earlier target of the same call
\* already named, the recomputed one; 0.0 for an id the graph does not hold.
StoredAt(targets, i) ==
    IF /\ targets[i] \in DOMAIN NetworkBefore.neurons \cup DOMAIN NetworkBefore.synapses
       /\ \E j \in 1..(i - 1) : targets[j] = targets[i]
    THEN Recomputed(targets[i])
    ELSE StoredScore(NetworkBefore, targets[i])

\* The updates a call on `targets` is to emit, in the order of the targets.
ExpectedUpdates(targets) ==
    LET Emits(i) == Recomputed(targets[i]) # StoredAt(targets, i)
        idx == SelectSeq([i \in 1..Len(targets) |-> i], Emits)
    IN  [k \in 1..Len(idx) |->
            [type |-> "CuriosityScoreUpdated", target_id |-> targets[idx[k]],
             old_score |-> StoredAt(targets, idx[k]),
             new_score |-> Recomputed(targets[idx[k]])]]

\* C26: a recalculation that returns Ok has appended, in the order of its
\* targets, one CuriosityScoreUpdated event (old_score the stored score,
\* new_score the recomputed one) for exactly the targets whose recomputed score
\* differs from the stored one and nothing for the others, has applied them,
\* and returns exactly these events; with scope All the targets are the nodes
\* and edges present, so on an empty graph the list is empty and nothing is
\* appended.
C26_UpdatesForChangedTargetsOnly ==
    RecalculateReturned =>
        /\ ret.value = ExpectedUpdates(call.arg.targets)
        /\ log = log0 \o ret.value
        /\ network = NetworkHydrateFrom(NetworkBefore, ret.value, 1)
        /\ call.arg.scope = "All" =>
              /\ {call.arg.targets[i] : i \in 1..Len(call.arg.targets)}
                    = DOMAIN NetworkBefore.neurons \cup DOMAIN NetworkBefore.synapses
              /\ DOMAIN NetworkBefore.neurons = {} => ret.value = <<>> /\ log = log0

\* A call names the same present node twice: the first target gets an update,
\* the second, whose stored score is then the recomputed one, gets none.
C26_Witness ==
    /\ RecalculateReturned
    /\ Len(call.arg.targets) = 2
    /\ call.arg.targets[1] = call.arg.targets[2]
    /\ call.arg.targets[1] \in DOMAIN network.neurons
    /\ Len(ret.value) = 1
    /\ log = Append(log0, ret.value[1])

\* Scope All on an empty graph: Ok with an empty list, the log as before.
C26_EmptyGraphWitness ==
    /\ RecalculateReturned
    /\ call.arg.scope = "All"
    /\ DOMAIN network.neurons = {}
    /\ ret.value = <<>>
    /\ log = log0

\* The updates of one target among the events.
UpdatesOf(events, id) ==
    SelectSeq(events, LAMBDA e : e.type = "CuriosityScoreUpdated" /\ e.target_id = id)

\* C27: recalculating a node or edge the graph holds and that was scored
\* before strictly lowers its stored score (the denominator grows) and
\* appends exactly one more update for it; when nothing but the update of the
\* previous recalculation has referenced it since, the score goes from 1/d to
\* 1/(d+1).
C27_RepeatedRecalculationDecays ==
    RecalculateReturned =>
        \A i \in 1..Len(call.arg.targets) :
            LET id == call.arg.targets[i]
                d == StoredScore(NetworkBefore, id)
            IN  (id \in DOMAIN NetworkBefore.neurons \cup DOMAIN NetworkBefore.synapses /\ d >= 1)
                => /\ StoredScore(network, id) > d
                   /\ Occurrences(log0, id) = d => StoredScore(network, id) = d + 1
                   /\ Len(UpdatesOf(log, id)) = Len(UpdatesOf(log0, id)) + 1

\* A third recalculation in a row of the same node: 1/2, 1/3, then 1/4.
C27_Witness ==
    /\ RecalculateReturned
    /\ Len(log) >= 3
    /\ \E id \in DOMAIN network.neurons :
          /\ call.arg.targets = <<id>>
          /\ \A k \in 0..2 :
                /\ log[Len(log) - k].type = "CuriosityScoreUpdated"
                /\ log[Len(log) - k].target_id = id
                /\ log[Len(log) - k].new_score = 4 - k
          /\ StoredScore(network, id) = 4

-----------------------------------------------------------------------------
\* Memory preconditions and scores.

\* Does the memory hold an entry with this id?
HasEntry(mem, entry_id) == \E i \in 1..Len(mem.entries) : mem.entries[i].id = entry_id

\* A memory handle() has returned a precondition error; its command is call.arg.
MemoryRejected(op) ==
    /\ family = "memory"
    /\ pc = "returned"
    /\ ret.op = op
    /\ ret.status \in {"InvalidScore", "NotFound"}

\* A memory handle() has passed its checks and appended the event of its
\* command, call.event; the memory is still as on entry.
MemoryAccepted(op) ==
    /\ family = "memory"
    /\ pc = "appended"
    /\ call.op = op
    /\ call.event.type # "MemoryPruned"

\* C28: a memory command that violates a precondition fails with nothing
\* appended and the memory as it was: add with a score outside [0,1] returns
\* InvalidScore; update-score with a score outside [0,1] returns InvalidScore,
\* whether or not the entry exists, and with a valid score and an absent id
\* NotFound; remove with an absent id returns NotFound. No command that
\* violates one of them gets as far as its append.
C28_MemoryPreconditions ==
    /\ \A op \in {"AddMemoryEntry", "UpdateMemoryScore", "RemoveMemoryEntry"} :
          MemoryRejected(op) => log = log0 /\ memory = MemoryHydrate(memory.max_size, log0)
    /\ MemoryRejected("AddMemoryEntry") =>
          ret.status = "InvalidScore" /\ ~ValidScore(call.arg.score)
    /\ MemoryRejected("UpdateMemoryScore") =>
          /\ ret.status = "InvalidScore" <=> ~ValidScore(call.arg.score)
          /\ ret.status = "NotFound" => ~HasEntry(memory, call.arg.entry_id)
    /\ MemoryRejected("RemoveMemoryEntry") =>
          ret.status = "NotFound" /\ ~HasEntry(memory, call.arg.entry_id)
    /\ MemoryAccepted("AddMemoryEntry") => ValidScore(call.event.entry.score)
    /\ MemoryAccepted("UpdateMemoryScore") =>
          ValidScore(call.event.new_score) /\ HasEntry(memory, call.event.entry_id)
    /\ MemoryAccepted("RemoveMemoryEntry") => HasEntry(memory, call.event.entry_id)

\* An update-score with a score outside [0,1] for an id the non-empty memory
\* does not hold is rejected for its score.
C28_Witness ==
    /\ MemoryRejected("UpdateMemoryScore")
    /\ ret.status = "InvalidScore"
    /\ ~HasEntry(memory, call.arg.entry_id)
    /\ memory.entries # <<>>
    /\ log = log0

\* C29: from an empty log, through the memory command handlers, every entry
\* of the memory has a score in [0,1], at every point of every call.
C29_ScoresInUnitInterval ==
    family = "memory" =>
        \A i \in 1..Len(memory.entries) :
            0 <= memory.entries[i].score /\ memory.entries[i].score <= MaxScore

\* A memory whose entries were added with the scores 0.0 and 1.0 and one of
\* which had its score updated since.
C29_Witness ==
    /\ family = "memory"
    /\ pc = "idle"
    /\ \E i, j \in 1..Len(memory.entries) :
          /\ memory.entries[i].score = 0
          /\ memory.entries[j].score = MaxScore
          /\ \E k \in 1..Len(log) :
                /\ log[k].type = "MemoryScoreUpdated"
                /\ log[k].entry_id = memory.entries[i].id
                /\ log[k].old_score # log[k].new_score

\* Does the event take the entries with this id out of memory?
TakesOut(e, id) ==
    \/ e.type = "MemoryEntryRemoved" /\ e.entry_id = id
    \/ e.type = "MemoryPruned" /\ \E k \in 1..Len(e.removed_entries) : e.removed_entries[k] = id

\* The positions of the add events of a sequence after which, up to position
\* `upto`, no remove event names the entry and no prune event lists it.
SurvivingAdds(events, upto) ==
    SelectSeq([i \in 1..upto |-> i],
              LAMBDA i : /\ events[i].type = "MemoryEntryAdded"
                         /\ \A j \in (i + 1)..upto : ~TakesOut(events[j], events[i].entry.id))

\* The sequence without its k-th event.
Without(events, k) == SubSeq(events, 1, k - 1) \o SubSeq(events, k + 1, Len(events))

\* C30: the memory hydrated from any sequence of memory events holds, in the
\* order of their add events, exactly the entries that no later remove event
\* names and no later prune event lists, however many that is and whatever
\* max_size is; and a score-update event for an id that is absent when it is
\* applied changes nothing: the memory is that of the sequence without it.
C30_ApplyNeverPrunes ==
    \A r \in 1..2 :
        (family = "replay" /\ replicas[r].done /\ \A i \in 1..Len(log) : IsMemoryEvent(log[i])) =>
            LET mem == replicas[r].memory
                adds == SurvivingAdds(log, Len(log))
            IN  /\ Len(mem.entries) = Len(adds)
                /\ \A k \in 1..Len(adds) : mem.entries[k].id = log[adds[k]].entry.id
                /\ \A k \in 1..Len(log) :
                      (/\ log[k].type = "MemoryScoreUpdated"
                       /\ \A n \in 1..Len(SurvivingAdds(log, k - 1)) :
                             log[SurvivingAdds(log, k - 1)[n]].entry.id # log[k].entry_id)
                      => mem = MemoryHydrate(mem.max_size, Without(log, k))

\* A sequence that updates the score of an entry not yet added and then adds
\* more entries than max_size: all of them are held, with the scores of
\* their add events.
C30_Witness ==
    /\ family = "replay"
    /\ replicas[1].done
    /\ Len(log) = 3
    /\ log[1].type = "MemoryScoreUpdated"
    /\ log[2].type = "MemoryEntryAdded" /\ log[2].entry.id = log[1].entry_id
    /\ log[3].type = "MemoryEntryAdded" /\ log[3].entry.id # log[2].entry.id
    /\ Len(replicas[1].memory.entries) = 2
    /\ replicas[1].memory.max_size < 2
    /\ replicas[1].memory.entries[1].score = log[2].entry.score
    /\ log[2].entry.score # log[1].new_score

\* The memory the handler held when handle() was entered.
MemoryBefore == MemoryHydrate(memory.max_size, log0)

\* C31: an explicit prune that returns Ok on a memory of at most max_size
\* entries returns an empty list and appends nothing; on a larger memory it
\* appends exactly one MemoryPruned event, returns the ids that event lists,
\* len - max_size of them, and leaves exactly max_size entries.
C31_ExplicitPrune ==
    (family = "memory" /\ pc = "returned" /\ ret.op = "PruneMemory" /\ ret.status = "Ok") =>
        IF Len(MemoryBefore.entries) <= memory.max_size
        THEN ret.value = <<>> /\ log = log0 /\ memory = MemoryBefore
        ELSE /\ Len(log) = Len(log0) + 1
             /\ SubSeq(log, 1, Len(log0)) = log0
             /\ log[Len(log)].type = "MemoryPruned"
             /\ ret.value = log[Len(log)].removed_entries
             /\ Len(ret.value) = Len(MemoryBefore.entries) - memory.max_size
             /\ Len(memory.entries) = memory.max_size

\* A prune of a memory that is two entries over its capacity.
C31_Witness ==
    /\ family = "memory"
    /\ pc = "returned"
    /\ ret.op = "PruneMemory"
    /\ ret.status = "Ok"
    /\ Len(ret.value) = 2
    /\ Len(MemoryBefore.entries) = memory.max_size + 2
    /\ Len(memory.entries) = memory.max_size

-----------------------------------------------------------------------------
\* Read models.

\* A memory query has returned; the query is call.arg, the result ret.value.
QueryReturned(op) == family = "memory_query" /\ pc = "returned" /\ ret.op = op

\* `result` holds entries of `pool`, each once, in non-increasing score order,
\* Min(limit, Len(pool)) of them, and no entry of `pool` left out has a higher
\* score than one returned.
IsTopOf(result, pool, limit) ==
    /\ Len(result) = Min(limit, Len(pool))
    /\ \A k \in 1..Len(result) : \E i \in 1..Len(pool) : pool[i] = result[k]
    /\ \A k, l \in 1..Len(result) : k < l => result[k].id # result[l].id
    /\ \A k, l \in 1..Len(result) : k < l => result[k].score >= result[l].score
    /\ \A i \in 1..Len(pool) :
          (\A k \in 1..Len(result) : result[k].id # pool[i].id)
          => \A k \in 1..Len(result) : result[k].score >= pool[i].score

\* C32: top-k returns min(limit, n) entries of the memory in non-increasing
\* score order, each with a score at least that of every entry not returned;
\* filter-by-type-then-top-k returns only entries of the requested type, at
\* most `limit`, in non-increasing score order, the highest-scoring of that
\* type.
C32_TopEntries ==
    /\ QueryReturned("GetTopEntries") => IsTopOf(ret.value, memory.entries, call.arg.limit)
    /\ QueryReturned("GetByEventType") =>
          /\ \A k \in 1..Len(ret.value) : ret.value[k].event_type = call.arg.event_type
          /\ Len(ret.value) <= call.arg.limit
          /\ IsTopOf(ret.value,
                     SelectSeq(memory.entries, LAMBDA e : e.event_type = call.arg.event_type),
                     call.arg.limit)

\* One entry of a type is asked for: of the two of that type the one with the
\* higher score, added later, is returned, and not an entry of another type
\* with as high a score.
C32_Witness ==
    /\ QueryReturned("GetByEventType")
    /\ call.arg.limit = 1
    /\ Len(ret.value) = 1
    /\ \E i, j, k \in 1..Len(memory.entries) :
          /\ i < j
          /\ memory.entries[i].event_type = call.arg.event_type
          /\ memory.entries[j] = ret.value[1]
          /\ memory.entries[i].score < memory.entries[j].score
          /\ memory.entries[k].event_type # call.arg.event_type
          /\ memory.entries[k].score >= ret.value[1].score

\* The two highest of three entries, the lowest of which was added first.
C32_TopWitness ==
    /\ QueryReturned("GetTopEntries")
    /\ call.arg.limit = 2
    /\ Len(memory.entries) = 3
    /\ Len(ret.value) = 2
    /\ memory.entries[1].score < memory.entries[2].score
    /\ ret.value[1] = memory.entries[2]

\* A curiosity score query has returned; id and attachment are in call.arg.
ScoreQueried == family = "query" /\ pc = "returned" /\ ret.op = "GetCuriosityScore"

\* The positions of the score updates of `id` in the events.
UpdatePositions(events, id) ==
    {i \in 1..Len(events) :
        events[i].type = "CuriosityScoreUpdated" /\ events[i].target_id = id}

\* C33: the curiosity-score projection of an event sequence gives an id the
\* new_score of the last CuriosityScoreUpdated event for that id in the
\* sequence and no score if there is none; events of other kinds, the removal
\* of the node included, change nothing.
C33_LastUpdateWins ==
    (ScoreQueried /\ call.arg.attached) =>
        LET ups == UpdatePositions(log, call.arg.id)
        IN  IF ups = {}
            THEN ret.value = None
            ELSE ret.value = Some(log[CHOOSE i \in ups : \A j \in ups : j <= i].new_score)

\* Two updates of one node with different scores, then its removal: the
\* projection gives the second score.
C33_Witness ==
    /\ ScoreQueried
    /\ call.arg.attached
    /\ Len(log) = 3
    /\ log[1].type = "CuriosityScoreUpdated" /\ log[1].target_id = call.arg.id
    /\ log[2].type = "CuriosityScoreUpdated" /\ log[2].target_id = call.arg.id
    /\ log[1].new_score # log[2].new_score
    /\ log[3].type = "NeuronRemoved" /\ log[3].neuron_id = call.arg.id
    /\ ret.value = Some(log[2].new_score)

\* C36: a curiosity score query on a handler with no curiosity projection
\* attached returns "no score" for every id, whatever the events hold, and
\* returns normally; with a projection attached it returns exactly what the
\* projection holds for the id.
C36_UnattachedGivesNoScore ==
    ScoreQueried =>
        /\ ret.status = "Ok"
        /\ ~call.arg.attached => ret.value = None
        /\ call.arg.attached =>
              ret.value = (IF UpdatePositions(log, call.arg.id) = {} THEN None
                           ELSE Some(CuriosityFromEvents(log)[call.arg.id]))

\* A handler without projection is asked for an id whose score the events
\* updated: no score.
C36_Witness ==
    /\ ScoreQueried
    /\ ~call.arg.attached
    /\ UpdatePositions(log, call.arg.id) # {}
    /\ call.arg.id \in DOMAIN network.neurons
    /\ ret.value = None

\* An add has returned Ok(id): its add event is the first event after the
\* loaded log.
AddReturned ==
    /\ family = "memory"
    /\ pc = "returned"
    /\ ret.op = "AddMemoryEntry"
    /\ ret.status = "Ok"

AddedEntry == log[Len(log0) + 1].entry

\* The entries the prune pass of this add had to remove.
AddExcess ==
    IF Len(MemoryBefore.entries) + 1 > memory.max_size
    THEN Len(MemoryBefore.entries) + 1 - memory.max_size
    ELSE 0

\* The entries held before the add that the ascending stable sort puts before
\* the added one: those with a score not above its score.
NotAbove(score) ==
    Cardinality({i \in 1..Len(MemoryBefore.entries) : MemoryBefore.entries[i].score <= score})

\* Does the memory hold an entry with this id and score?
HoldsEntry(mem, id, score) ==
    \E i \in 1..Len(mem.entries) : mem.entries[i].id = id /\ mem.entries[i].score = score

\* C34 as stated: after an add returns Ok(id), on a memory that was within a
\* capacity of at least one, the handler's memory and the memory hydrated
\* from the log hold an entry with that id and the submitted score.
C34_AddedEntryIsInMemory ==
    (AddReturned /\ memory.max_size >= 1 /\ Len(MemoryBefore.entries) <= memory.max_size) =>
        /\ HoldsEntry(memory, ret.value, AddedEntry.score)
        /\ HoldsEntry(MemoryHydrate(memory.max_size, log), ret.value, AddedEntry.score)

\* C34 amended: after an add returns Ok(id) the log holds the add event of
\* the entry with that id, and the handler's memory, which is the memory
\* hydrated from the log, holds the entry with the submitted score exactly
\* when the prune pass of the add did not have to remove more entries than
\* the memory held with a score not above the new one; otherwise the new
\* entry itself was pruned and the prune event lists its id.
C34_AddedEntryUnlessPruned ==
    AddReturned =>
        /\ AddedEntry.id = ret.value
        /\ memory = MemoryHydrate(memory.max_size, log)
        /\ IF NotAbove(AddedEntry.score) >= AddExcess
           THEN HoldsEntry(memory, ret.value, AddedEntry.score)
           ELSE /\ ~HasEntry(memory, ret.value)
                /\ log[Len(log)].type = "MemoryPruned"
                /\ \E k \in 1..Len(log[Len(log)].removed_entries) :
                      log[Len(log)].removed_entries[k] = ret.value

\* An add to a full memory whose entry stays and pushes a lower one out.
C34_Witness ==
    /\ AddReturned
    /\ memory.max_size >= 1
    /\ Len(MemoryBefore.entries) = memory.max_size
    /\ Len(log) = Len(log0) + 2
    /\ HoldsEntry(memory, ret.value, AddedEntry.score)
    /\ ~HasEntry(memory, MemoryBefore.entries[1].id)

\* The two read models of the log: the graph aggregate and the score projection.
HydratedNetwork == NetworkHydrate(log)

ProjectedScores == CuriosityFromEvents(log)

\* The nodes of the aggregate the projection holds a score for.
ScoredNodes == DOMAIN HydratedNetwork.neurons \cap DOMAIN ProjectedScores

\* The position of the last event of a kind about an id (0: none).
LastPosition(events, kinds, id) ==
    LET at == {i \in 1..Len(events) : events[i].type \in kinds /\ id \in EventIds(events[i])}
    IN IF at = {} THEN 0 ELSE CHOOSE i \in at : \A j \in at : j <= i

LastCreation(id) == LastPosition(log, {"NeuronAdded", "RandomNeuronAdded"}, id)

LastUpdate(id) == LastPosition(log, {"CuriosityScoreUpdated"}, id)

\* Every command behind the log named a node the graph allowed: a creation an
\* absent id, a removal and a score update a present node.
NodesNamedWereValid ==
    \A i \in 1..Len(log) :
        LET net == NetworkHydrate(SubSeq(log, 1, i - 1))
        IN CASE log[i].type = "NeuronAdded" -> log[i].neuron_id \notin DOMAIN net.neurons
             [] log[i].type = "NeuronRemoved" -> log[i].neuron_id \in DOMAIN net.neurons
             [] log[i].type = "CuriosityScoreUpdated" -> log[i].target_id \in DOMAIN net.neurons
             [] OTHER -> TRUE

\* C35 as stated: on a log of handler commands that named valid nodes, every
\* node of the hydrated aggregate the projection holds a score for has that
\* score as its curiosity_score.
C35_ReadModelsAgree ==
    (family = "mixed" /\ NodesNamedWereValid) =>
        \A id \in ScoredNodes :
            HydratedNetwork.neurons[id].curiosity_score = ProjectedScores[id]

\* C35 amended: a node of the hydrated aggregate the projection holds a
\* score for has that score as its curiosity_score when its last creation
\* precedes the last score update of its id; a node created after that
\* update has the default score 0.0, which is not the projected one.
C35_ReadModelsAgreeSinceCreation ==
    family = "mixed" =>
        \A id \in ScoredNodes :
            IF LastCreation(id) < LastUpdate(id)
            THEN HydratedNetwork.neurons[id].curiosity_score = ProjectedScores[id]
            ELSE /\ HydratedNetwork.neurons[id].curiosity_score = 0
                 /\ ProjectedScores[id] # 0

\* A node created by a command and scored afterwards: both read models hold
\* the same score, which is not the default one.
C35_Witness ==
    /\ family = "mixed"
    /\ \E id \in ScoredNodes :
          /\ 0 < LastCreation(id)
          /\ LastCreation(id) < LastUpdate(id)
          /\ HydratedNetwork.neurons[id].curiosity_score = ProjectedScores[id]
          /\ ProjectedScores[id] # 0

\* A node removed and created again after its score was updated: the
\* aggregate holds the default score, the projection the old one.
C35_RecreatedWitness ==
    /\ family = "mixed"
    /\ NodesNamedWereValid
    /\ \E id \in ScoredNodes :
          /\ LastUpdate(id) < LastCreation(id)
          /\ HydratedNetwork.neurons[id].curiosity_score = 0

\* Every synapse of the network has both its ends among the neurons.
ReferentialIntegrity(net) ==
    \A s \in DOMAIN net.synapses :
        /\ net.synapses[s].from \in DOMAIN net.neurons
        /\ net.synapses[s].to \in DOMAIN net.neurons

\* C37: the network reached by applying any sequence of graph events of
\* any length to the empty network, a handler's events or not, has every
\* synapse joining two of its neurons.
C37_ReferentialIntegrity ==
    family = "apply" => ReferentialIntegrity(network)

\* Events left a synapse between two different neurons, which the removal of
\* its target neuron takes along.
C37_Witness ==
    /\ family = "apply"
    /\ \E s \in DOMAIN network.synapses :
          /\ network.synapses[s].from # network.synapses[s].to
          /\ DOMAIN NetworkApply(network,
                                 [type |-> "NeuronRemoved",
                                  neuron_id |-> network.synapses[s].to]).synapses = {}

\* A mutation command of the kind `op` has returned Ok.
MutationReturned(op) ==
    /\ family = "seeded"
    /\ HasReturned
    /\ ret.op = op
    /\ ret.status = "Ok"

\* The same neuron ids, the same synapse ids, every synapse with the same ends.
SameShape(after, before) ==
    /\ DOMAIN after.neurons = DOMAIN before.neurons
    /\ DOMAIN after.synapses = DOMAIN before.synapses
    /\ \A s \in DOMAIN before.synapses :
          /\ after.synapses[s].from = before.synapses[s].from
          /\ after.synapses[s].to = before.synapses[s].to

\* Nothing but the weight of the synapse `sid`, which is now `weight`, differs.
OnlyWeightOf(after, before, sid, weight) ==
    /\ sid \in DOMAIN before.synapses
    /\ after = [before EXCEPT !.synapses[sid].weight = weight]

\* Nothing but the activation of the neuron `nid`, which is now `activation`, differs.
OnlyActivationOf(after, before, nid, activation) ==
    /\ nid \in DOMAIN before.neurons
    /\ after = [before EXCEPT !.neurons[nid].activation = activation]

\* Nothing but the curiosity scores of the neurons and synapses among
\* `targets` differs.
OnlyScoresOf(after, before, targets) ==
    /\ \A n \in DOMAIN before.neurons :
          after.neurons[n] =
             IF n \in targets
             THEN [before.neurons[n] EXCEPT !.curiosity_score = after.neurons[n].curiosity_score]
             ELSE before.neurons[n]
    /\ \A x \in DOMAIN before.synapses :
          after.synapses[x] =
             IF x \in targets
             THEN [before.synapses[x] EXCEPT !.curiosity_score = after.synapses[x].curiosity_score]
             ELSE before.synapses[x]

\* The ids a recalculation was asked for.
TargetSet == {call.arg.targets[i] : i \in 1..Len(call.arg.targets)}

\* C38: a mutate-synapse-weight, set-synapse-weight, mutate-neuron-activation
\* or recalculate-curiosity-score call that returned Ok left the neuron ids,
\* the synapse ids and every synapse's ends as they were, and changed only the
\* weight of the one synapse, the activation of the one neuron, or the
\* curiosity scores of the targets; a recalculation none of whose targets is
\* in the graph left the network as it was.
C38_MutationFrame ==
    /\ \A op \in {"MutateRandomSynapseWeight", "SetSynapseWeight",
                   "MutateRandomNeuronActivation", "RecalculateCuriosityScore"} :
          MutationReturned(op) => SameShape(network, NetworkBefore)
    /\ \A op \in {"MutateRandomSynapseWeight", "SetSynapseWeight"} :
          MutationReturned(op) =>
             /\ Len(log) = Len(log0) + 1
             /\ OnlyWeightOf(network, NetworkBefore, log[Len(log)].synapse_id,
                             log[Len(log)].new_weight)
    /\ MutationReturned("MutateRandomNeuronActivation") =>
          /\ Len(log) = Len(log0) + 1
          /\ OnlyActivationOf(network, NetworkBefore, log[Len(log)].neuron_id,
                              log[Len(log)].new_activation)
    /\ MutationReturned("RecalculateCuriosityScore") =>
          /\ OnlyScoresOf(network, NetworkBefore, TargetSet)
          /\ (TargetSet \cap (DOMAIN NetworkBefore.neurons \cup DOMAIN NetworkBefore.synapses) = {})
                => network = NetworkBefore

\* A recalculation for a neuron that has a score and an activation of its
\* own and for an id the graph does not hold: the neuron's score changed.
C38_Witness ==
    /\ MutationReturned("RecalculateCuriosityScore")
    /\ \E n \in TargetSet \cap DOMAIN NetworkBefore.neurons :
          /\ network.neurons[n].curiosity_score # NetworkBefore.neurons[n].curiosity_score
          /\ NetworkBefore.neurons[n].curiosity_score # 0
    /\ DOMAIN network.synapses # {}
    /\ TargetSet \ (DOMAIN NetworkBefore.neurons \cup DOMAIN NetworkBefore.synapses) # {}

\* A recalculation for ids the graph does not hold only, on a graph that
\* holds neurons: events were appended, the network is as it was.
C38_AbsentWitness ==
    /\ MutationReturned("RecalculateCuriosityScore")
    /\ TargetSet # {}
    /\ TargetSet \cap (DOMAIN NetworkBefore.neurons \cup DOMAIN NetworkBefore.synapses) = {}
    /\ DOMAIN network.neurons # {}
    /\ Len(log) > Len(log0)

\* A weight mutation on a graph of two synapses, one of them scored.
C38_WeightWitness ==
    /\ MutationReturned("MutateRandomSynapseWeight")
    /\ Cardinality(DOMAIN network.synapses) = 2
    /\ network # NetworkBefore

\* An activation mutation of a neuron that has a score.
C38_ActivationWitness ==
    /\ MutationReturned("MutateRandomNeuronActivation")
    /\ network.neurons[log[Len(log)].neuron_id].curiosity_score # 0

\* A handle() of the RecalculateCuriosityScoreHandler has returned, with Ok
\* or after a failed append, on the log of the node commands.
RecalculateEnded ==
    /\ family = "mixed"
    /\ pc = "returned"
    /\ ret.op = "RecalculateCuriosityScore"

\* The events the call appended.
AppendedInCall == SubSeq(log, Len(log0) + 1, Len(log))

\* C39: every score a recalculation appends is computed against the events
\* loaded at the start of the call, whatever the call appended before it, and
\* the call appends at most one update for an id the graph holds, however
\* often the target list names it.
C39_HistoryLoadedOnce ==
    RecalculateEnded =>
        /\ \A i \in 1..Len(AppendedInCall) :
              /\ AppendedInCall[i].type = "CuriosityScoreUpdated"
              /\ AppendedInCall[i].new_score = compute_score(log0, AppendedInCall[i].target_id)
        /\ \A id \in DOMAIN NetworkBefore.neurons \cup DOMAIN NetworkBefore.synapses :
              Len(UpdatesOf(AppendedInCall, id)) <= 1

\* The target list names a node the graph holds twice: one update is
\* appended, with the score of the loaded events.
C39_Witness ==
    /\ RecalculateEnded
    /\ ret.status = "Ok"
    /\ Len(call.arg.targets) = 2
    /\ call.arg.targets[1] = call.arg.targets[2]
    /\ call.arg.targets[1] \in DOMAIN NetworkBefore.neurons
    /\ Len(AppendedInCall) = 1
    /\ AppendedInCall[1].target_id = call.arg.targets[1]
    /\ AppendedInCall[1].new_score = compute_score(log0, call.arg.targets[1])

\* The target list names twice an id the graph does not hold: two updates
\* with the same score are appended.
C39_AbsentTwiceWitness ==
    /\ RecalculateEnded
    /\ ret.status = "Ok"
    /\ Len(call.arg.targets) = 2
    /\ call.arg.targets[1] = call.arg.targets[2]
    /\ call.arg.targets[1] \notin DOMAIN NetworkBefore.neurons
    /\ Len(AppendedInCall) = 2
    /\ AppendedInCall[1] = AppendedInCall[2]

\* The events a call that has returned appended to the log it loaded.
Grown == SubSeq(log, Len(log0) + 1, Len(log))

\* The commands that append one event when they succeed.
SingleEventOps ==
    {"CommandHandler", "AddRandomSynapse", "RemoveRandomNeuron", "RemoveRandomSynapse",
     "MutateRandomSynapseWeight", "SetSynapseWeight", "MutateRandomNeuronActivation",
     "RemoveMemoryEntry", "UpdateMemoryScore"}

\* The synapses of the network that start or end at the neuron `id`.
SynapsesAt(net, id) ==
    {x \in DOMAIN net.synapses : net.synapses[x].from = id \/ net.synapses[x].to = id}

\* C40: when handle() returns, the log is the loaded log followed by the
\* events of the call, and their number follows from the outcome: none after
\* a validation or no-candidate error; one after Ok of an explicit graph
\* command, a random synapse add, a random neuron or synapse removal, a weight
\* or activation mutation, a memory remove or a memory score update; after Ok
\* of add-random-neuron the node event and one SynapseCreated event per
\* synapse attached to the new neuron; after Ok of a memory add the add event,
\* followed by one prune event exactly when the add made the memory larger
\* than max_size.
C40_LogGrowth ==
    (family \in {"random", "command", "memory"} /\ HasReturned) =>
        /\ Len(log) >= Len(log0)
        /\ SubSeq(log, 1, Len(log0)) = log0
        /\ ret.status \notin {"Ok", "StorageError"} => Len(Grown) = 0
        /\ (ret.status = "Ok" /\ ret.op \in SingleEventOps) => Len(Grown) = 1
        /\ (ret.status = "Ok" /\ ret.op = "AddRandomNeuron") =>
              /\ Len(Grown) = 1 + Cardinality(SynapsesAt(network, ret.value))
              /\ Grown[1].type = "RandomNeuronAdded"
              /\ \A i \in 2..Len(Grown) : Grown[i].type = "SynapseCreated"
        /\ (ret.status = "Ok" /\ ret.op = "AddMemoryEntry") =>
              /\ Grown[1].type = "MemoryEntryAdded"
              /\ IF Len(MemoryBefore.entries) + 1 > memory.max_size
                 THEN Len(Grown) = 2 /\ Grown[2].type = "MemoryPruned"
                 ELSE Len(Grown) = 1

\* An add-random-neuron call that attached a synapse has returned Ok: the
\* node event and the synapse event.
C40_Witness ==
    /\ family = "random"
    /\ HasReturned
    /\ ret.status = "Ok"
    /\ ret.op = "AddRandomNeuron"
    /\ Len(Grown) = 2
    /\ Cardinality(SynapsesAt(network, ret.value)) = 1

\* A memory add that filled the memory to max_size exactly: one event.
C40_FullWitness ==
    /\ family = "memory"
    /\ HasReturned
    /\ ret.status = "Ok"
    /\ ret.op = "AddMemoryEntry"
    /\ memory.max_size >= 1
    /\ Len(MemoryBefore.entries) + 1 = memory.max_size
    /\ Len(Grown) = 1

\* A memory add beyond max_size: the add event and the prune event.
C40_PruneWitness ==
    /\ family = "memory"
    /\ HasReturned
    /\ ret.status = "Ok"
    /\ ret.op = "AddMemoryEntry"
    /\ memory.max_size >= 1
    /\ Len(Grown) = 2

\* A validation error on a log that holds events.
C40_FailedWitness ==
    /\ HasReturned
    /\ ret.status \notin {"Ok", "StorageError"}
    /\ Len(log) >= 2
    /\ log = log0

\* An explicit command has returned Ok.
C40_CommandWitness ==
    /\ family = "command"
    /\ HasReturned
    /\ ret.status = "Ok"
    /\ ret.op = "CommandHandler"
    /\ Len(log0) >= 1
    /\ Len(Grown) = 1

====
